---- MODULE Spec2Model ----
(***************************************************************************)
(* Freelance Forge backend: the invoice handlers of                        *)
(* backend/src/modules/invoices.rs over the tables the migrations create.  *)
(*                                                                         *)
(* The database is the state: one variable per table.  Every handler is    *)
(* one action that takes the request as its parameters, answers it in      *)
(* `resp` and records it in `req`.  Amounts are f64 in the code; the model *)
(* counts a quantity in units and an amount of money in hundredths, and    *)
(* the requests carry whole amounts and halves, which f64 holds, adds and  *)
(* multiplies exactly.  A text (a String that ends up in a document) is a  *)
(* sequence of pieces.  An Option<T> is a sequence of length at most one.  *)
(***************************************************************************)
EXTENDS Integers, Sequences, FiniteSets, TLC

VARIABLES
    users,       \* table "user":             user id -> row
    companies,   \* table "company":          company id -> row
    templates,   \* table "invoice_template": template id -> Option<row>
    invoices,    \* table "invoice":          invoice id -> row
    line_items,  \* table "invoice_line_item": invoice id -> its rows, as inserted
    req,         \* the request handled last
    resp,        \* the answer to it
    txns,        \* connection -> the create_invoice request in flight on it
    sessions,    \* table "session":          session id -> Option<row>
    now,         \* Utc::now(), in days
    exchange     \* the converter process of the render in progress and its pipes

vars == <<users, companies, templates, invoices, line_items, req, resp, txns,
          sessions, now, exchange>>
db == <<users, companies, templates, invoices, line_items>>
\* what the invoice and template handlers neither read nor write
others == <<sessions, now, exchange>>

----------------------------------------------------------------------------
(* Bounds of the exploration *)

MaxInvoices == 2
MaxItems == 2
MaxTemplates == 1
MaxConnections == 2
MaxWholeDigits == 6

----------------------------------------------------------------------------
(* Option<T> *)

None == <<>>
Some(x) == <<x>>
IsSome(o) == o # <<>>
Unwrap(o) == o[1]
UnwrapOr(o, d) == IF o = <<>> THEN d ELSE o[1]

----------------------------------------------------------------------------
(* Values the requests are drawn from *)

Users == {"u1", "u2", "u3"}
CompanyIds == {1, 2}
TemplateIds == 1..MaxTemplates
InvoiceIds == 1..MaxInvoices
Connections == 1..MaxConnections

\* LineItemInput {description, quantity, unit_price, use_quantity: Option<bool>}
ItemCycle ==
    << [description |-> <<"a">>, quantity |-> 2,  unit_price |-> 500, use_quantity |-> None],
       [description |-> <<"b">>, quantity |-> -3, unit_price |-> 400, use_quantity |-> Some(FALSE)],
       [description |-> <<"c">>, quantity |-> -1, unit_price |-> -700, use_quantity |-> Some(TRUE)] >>

ItemInputs == {ItemCycle[k] : k \in DOMAIN ItemCycle}

\* n items of the cycle, starting at its k-th
Run(k, n) == [j \in 1..n |-> ItemCycle[((k + j - 2) % Len(ItemCycle)) + 1]]

\* The item lists of the requests: the empty list, the runs of the cycle up to
\* MaxItems items, and one list that repeats an item
ItemLists ==
    {<<>>} \cup {Run(k, n) : k \in DOMAIN ItemCycle, n \in 1..MaxItems}
           \cup {<<ItemCycle[1], ItemCycle[1]>>}

----------------------------------------------------------------------------
(* Pure helpers of the handlers *)

\* The guard left out: every list passes
ItemsNeverMissing(items) == FALSE

\* payload.items.is_empty(), the guard of "At least one line item is required"
ItemsMissing(items) == items = <<>>

\* The sum taken without looking at use_quantity
RECURSIVE TotalIgnoringUseQuantity(_)
TotalIgnoringUseQuantity(items) ==
    IF items = <<>> THEN 0
    ELSE Head(items).quantity * Head(items).unit_price
         + TotalIgnoringUseQuantity(Tail(items))

\* the closure of items.iter().map(..).sum()
RECURSIVE ComputeTotalAmount(_)
ComputeTotalAmount(items) ==
    IF items = <<>> THEN 0
    ELSE LET item == Head(items)
         IN  (IF UnwrapOr(item.use_quantity, TRUE)
              THEN item.quantity * item.unit_price
              ELSE item.unit_price)
             + ComputeTotalAmount(Tail(items))

\* The line_total taken without looking at use_quantity
LineTotalAlwaysMultiplied(item) == item.quantity * item.unit_price

\* the line_total of one inserted row
ComputeLineTotal(item) ==
    LET use_quantity == UnwrapOr(item.use_quantity, TRUE)
    IN  IF use_quantity THEN item.quantity * item.unit_price ELSE item.unit_price

\* invoice_line_item::ActiveModel built from one LineItemInput
LineItemRow(item) ==
    [ description  |-> item.description,
      quantity     |-> item.quantity,
      unit_price   |-> item.unit_price,
      line_total   |-> ComputeLineTotal(item),
      use_quantity |-> UnwrapOr(item.use_quantity, TRUE) ]

\* the loop `for item in items { insert }`: rows in the order of the request
InsertItems(items) == [i \in 1..Len(items) |-> LineItemRow(items[i])]

InvoiceNumberWidth == 5
DigitChars == <<"0", "1", "2", "3", "4", "5", "6", "7", "8", "9">>

RECURSIVE Digits(_)
Digits(n) ==
    IF n < 10 THEN <<DigitChars[n + 1]>>
    ELSE Digits(n \div 10) \o <<DigitChars[(n % 10) + 1]>>

RECURSIVE ZeroPad(_, _)
ZeroPad(s, width) == IF Len(s) >= width THEN s ELSE ZeroPad(<<"0">> \o s, width)

\* format!("IN-{:05}", n), as a sequence of characters
FormatInvoiceNumber(n) == <<"I", "N", "-">> \o ZeroPad(Digits(n), InvoiceNumberWidth)

CountInvoicesOf(user_id) ==
    Cardinality({i \in DOMAIN invoices : invoices[i].user_id = Some(user_id)})

\* The count taken over every owner's invoices
NumberAcrossOwners(user_id) == FormatInvoiceNumber(Len(invoices) + 1)

\* invoice count of the owner + 1, formatted
next_invoice_number(user_id) == FormatInvoiceNumber(CountInvoicesOf(user_id) + 1)

----------------------------------------------------------------------------
(* format_money.  A text is a sequence of pieces, most of them single        *)
(* characters.  An amount of money is counted in hundredths, which "{:.2}"   *)
(* prints exactly.                                                           *)

EUR == <<"EUR">>
USD == <<"USD">>
GBP == <<"GBP">>

\* match currency { "EUR" => ('.', ','), "USD" | "GBP" => (',', '.'), _ => (',', '.') }
Separators(currency) ==
    IF currency = EUR THEN [thousands |-> ".", decimal |-> ","]
    ELSE IF currency \in {USD, GBP} THEN [thousands |-> ",", decimal |-> "."]
    ELSE [thousands |-> ",", decimal |-> "."]

\* format!("{:.2}", abs_value)
TwoDecimals(abs_value) ==
    Digits(abs_value \div 100) \o <<".">> \o ZeroPad(Digits(abs_value % 100), 2)

\* raw.split('.'): the part before the first '.', and the part after it
RECURSIVE SplitAtDot(_, _)
SplitAtDot(raw, i) ==
    IF i > Len(raw) THEN [int_part |-> raw, frac_part |-> <<"0", "0">>]
    ELSE IF raw[i] = "."
         THEN [int_part |-> SubSeq(raw, 1, i - 1), frac_part |-> SubSeq(raw, i + 1, Len(raw))]
         ELSE SplitAtDot(raw, i + 1)

Reverse(s) == [i \in 1..Len(s) |-> s[Len(s) + 1 - i]]

\* for (i, ch) in chars.enumerate() { if i > 0 && i % 3 == 0 { push(thousands) } push(ch) }
RECURSIVE PushGrouped(_, _, _)
PushGrouped(chars, i, thousands) ==
    IF i >= Len(chars) THEN <<>>
    ELSE (IF i > 0 /\ i % 3 = 0 THEN <<thousands>> ELSE <<>>)
         \o <<chars[i + 1]>> \o PushGrouped(chars, i + 1, thousands)

\* The digits grouped from the left, the reversal forgotten
GroupFromLeft(int_part, thousands) == PushGrouped(int_part, 0, thousands)

\* int_part.chars().rev() grouped, then grouped.chars().rev()
GroupThousands(int_part, thousands) ==
    Reverse(PushGrouped(Reverse(int_part), 0, thousands))

format_money(value, currency) ==
    LET sep == Separators(currency)
        sign == IF value < 0 THEN <<"-">> ELSE <<>>
        abs_value == IF value < 0 THEN -value ELSE value
        parts == SplitAtDot(TwoDecimals(abs_value), 1)
    IN  sign \o GroupThousands(parts.int_part, sep.thousands)
             \o <<sep.decimal>> \o parts.frac_part

\* The lookup without the owner filter
FindTemplateOfAnyone(id, user_id) ==
    IF id \in DOMAIN templates THEN templates[id] ELSE None

\* find_by_id(id).filter(UserId.eq(user_id)) on invoice_template
FindTemplate(id, user_id) ==
    IF id \in DOMAIN templates /\ IsSome(templates[id])
       /\ Unwrap(templates[id]).user_id = user_id
    THEN templates[id] ELSE None

\* Result<Option<Uuid>, _>: ok carries the id, err the message
resolve_template_id(user_id, template_id) ==
    IF IsSome(template_id)
    THEN IF FindTemplate(Unwrap(template_id), user_id) = None
         THEN [ok |-> FALSE, value |-> None, error |-> "Invalid template"]
         ELSE [ok |-> TRUE, value |-> template_id, error |-> ""]
    ELSE [ok |-> TRUE, value |-> None, error |-> ""]

\* find_by_id(id).filter(UserId.eq(user_id)) on company
FindCompany(id, user_id) ==
    IF id \in DOMAIN companies /\ companies[id].user_id = Some(user_id)
    THEN Some(companies[id]) ELSE None

\* a lookup of the invoice by its id alone
FindInvoiceOfAnyone(id, user_id) ==
    IF id \in DOMAIN invoices THEN Some(invoices[id]) ELSE None

\* find().filter(Id.eq(id)).filter(UserId.eq(user_id)) on invoice
FindInvoice(id, user_id) ==
    IF id \in DOMAIN invoices /\ invoices[id].user_id = Some(user_id)
    THEN Some(invoices[id]) ELSE None

\* All orders of a sequence: what a SELECT without ORDER BY may return
Orders(s) ==
    { [i \in 1..Len(s) |-> s[p[i]]] : p \in Permutations(1..Len(s)) }

\* SELECT .. FROM invoice_line_item WHERE invoice_id = $1 (no ORDER BY)
load_items(invoice_id) == Orders(line_items[invoice_id])

DefaultNote == <<"Rechnungsbetrag ohne Umsatzsteuer">>

\* the built-in fragment: here the format string writes {{{{ and }}}}, which
\* come out as the two braces of a placeholder
default_template(note) ==
    [ html |-> <<"<h1>Invoice</h1>", "{{", "user_address", "}}",
                 "Invoice ID: ", "{{", "invoice_id", "}}",
                 "Date: ", "{{", "invoice_date", "}}",
                 "<h2>Bill To</h2>", "{{", "client_name", "}}",
                 "<div>", "{{", "client_address", "}}",
                 "<table>", "<tbody>",
                 "{{", "#each", " ", "items", "}}",
                 "<tr>", "<td>", "{{", "description", "}}", "</td>",
                 "<td>", "{{", "quantity", "}}", "</td>",
                 "<td>", "{{", "unit_price", "}}", "</td>",
                 "<td>", "{{", "currency", "}}", " ", "{{", "line_total", "}}", "</td>",
                 "</tr>",
                 "{{", "/each", "}}",
                 "</tbody>", "</table>",
                 "Subtotal: ", "{{", "currency", "}}", " ", "{{", "subtotal", "}}",
                 "Total: ", "{{", "currency", "}}", " ", "{{", "total_amount", "}}",
                 "<h2>Notes</h2>">> \o note,
      is_custom |-> FALSE ]

\* The lookup left out: the built-in template whatever the invoice names
AlwaysDefaultTemplate(user_id, template_id) == default_template(DefaultNote)

\* the template get_invoice_pdf renders with
load_template(user_id, template_id) ==
    IF user_id = None THEN default_template(DefaultNote)
    ELSE IF IsSome(template_id)
            /\ IsSome(FindTemplate(Unwrap(template_id), Unwrap(user_id)))
         THEN [html |-> Unwrap(FindTemplate(Unwrap(template_id), Unwrap(user_id))).html,
               is_custom |-> TRUE]
         ELSE default_template(DefaultNote)

----------------------------------------------------------------------------
(* build_invoice_pdf: the template language                                *)
(*                                                                         *)
(* A text is a sequence of pieces.  The pieces "{{" and "}}" are the only  *)
(* way a text holds two adjacent braces, and the letters of an html tag    *)
(* are pieces of their own; every other piece is an opaque stretch of text *)
(* that holds neither (it may hold single braces).  Of the handlebars      *)
(* crate the model keeps what the templates of this program use: {{name}}, *)
(* {{money v}}, {{money v c}} and {{#each items}} .. {{/each}}, rendered   *)
(* without escaping (line 723) and not in strict mode (Handlebars::new()). *)

Whitespace == {" ", "\n"}

\* input.trim().is_empty()
IsBlank(text) == \A i \in DOMAIN text : text[i] \in Whitespace

LowerPiece(piece) ==
    CASE piece = "H" -> "h"
      [] piece = "T" -> "t"
      [] piece = "M" -> "m"
      [] piece = "L" -> "l"
      [] OTHER -> piece

\* The text compared in the letter case it has
KeepCase(text) == text

to_lowercase(text) == [i \in DOMAIN text |-> LowerPiece(text[i])]

contains(text, pattern) ==
    \E i \in 0..(Len(text) - Len(pattern)) :
        SubSeq(text, i + 1, i + Len(pattern)) = pattern

HtmlTag == <<"<", "h", "t", "m", "l">>

\* serde_json values of the render context
Str(text) == [kind |-> "str", text |-> text, hundredths |-> 0, elems |-> <<>>]
Num(hundredths) == [kind |-> "num", text |-> <<>>, hundredths |-> hundredths, elems |-> <<>>]
Bool(b) == [kind |-> "bool", text |-> IF b THEN <<"true">> ELSE <<"false">>,
            hundredths |-> 0, elems |-> <<>>]
Arr(elems) == [kind |-> "arr", text |-> <<>>, hundredths |-> 0, elems |-> elems]
Missing == [kind |-> "null", text |-> <<>>, hundredths |-> 0, elems |-> <<>>]

\* Display of a serde_json f64: the shortest decimal text that reads back,
\* always with a fraction digit (2 is "2.0", 1234.5 is "1234.5")
JsonNumberText(hundredths) ==
    LET abs_value == IF hundredths < 0 THEN -hundredths ELSE hundredths
        frac == abs_value % 100
    IN  (IF hundredths < 0 THEN <<"-">> ELSE <<>>)
        \o Digits(abs_value \div 100) \o <<".">>
        \o (IF frac % 10 = 0 THEN Digits(frac \div 10) ELSE ZeroPad(Digits(frac), 2))

\* what {{name}} writes for a value: a string as it is (no escaping), a
\* number by its Display, nothing for a missing value
RenderValue(v) ==
    CASE v.kind = "str" -> v.text
      [] v.kind = "num" -> JsonNumberText(v.hundredths)
      [] v.kind = "bool" -> v.text
      [] v.kind = "arr" -> <<"[array]">>
      [] OTHER -> <<>>

UuidText(id) == <<"uuid-">> \o Digits(id)
DateText(date) == <<"2024-01-">> \o ZeroPad(Digits(date), 2)

SumLineTotalsOf(items) ==
    LET RECURSIVE Sum(_)
        Sum(i) == IF i = 0 THEN 0 ELSE Sum(i - 1) + items[i].line_total
    IN  Sum(Len(items))

\* json!({ .. "items": [ { .. } ] })
ItemContext(item) ==
    [ description  |-> Str(item.description),
      quantity     |-> Num(100 * item.quantity),
      unit_price   |-> Num(item.unit_price),
      line_total   |-> Num(item.line_total),
      use_quantity |-> Bool(item.use_quantity) ]

\* json!({ "invoice_id": .., .. })
RenderContext(invoice, items) ==
    [ invoice_id     |-> Str(UuidText(invoice.id)),
      invoice_number |-> Str(invoice.invoice_number),
      invoice_date   |-> Str(DateText(invoice.date)),
      client_name    |-> Str(invoice.client_name),
      client_address |-> Str(invoice.client_address),
      user_address   |-> Str(invoice.user_address),
      currency       |-> Str(invoice.currency),
      total_amount   |-> Num(invoice.total_amount),
      subtotal       |-> Num(SumLineTotalsOf(items)),
      invoice_note   |-> Str(DefaultNote),
      items          |-> Arr([i \in DOMAIN items |-> ItemContext(items[i])]) ]

Open == "{{"
Close == "}}"

\* the "}}" that ends the tag opened at position o, 0 when the text ends or
\* another "{{" comes first
TagEnd(text, o) ==
    LET marks == {c \in (o + 1)..Len(text) : text[c] \in {Open, Close}}
        first == CHOOSE c \in marks : \A d \in marks : c <= d
    IN  IF marks = {} THEN 0
        ELSE IF text[first] = Close THEN first ELSE 0

NotSpace(piece) == piece \notin Whitespace

\* the words of the tag opened at position o
Words(text, o) == SelectSeq(SubSeq(text, o + 1, TagEnd(text, o) - 1), NotSpace)

Opens(text) == {o \in DOMAIN text : text[o] = Open}

\* every tag is closed and none is empty
Parses(text) ==
    \A o \in Opens(text) : TagEnd(text, o) # 0 /\ Words(text, o) # <<>>

\* the concatenation of a sequence of texts
RECURSIVE Flatten(_)
Flatten(texts) ==
    IF texts = <<>> THEN <<>>
    ELSE IF Len(texts) = 1 THEN texts[1]
    ELSE LET half == Len(texts) \div 2
         IN  Flatten(SubSeq(texts, 1, half))
             \o Flatten(SubSeq(texts, half + 1, Len(texts)))

\* a template that parses, as plain pieces and tags: a token starts at every
\* position that is not inside a tag
Tokens(text) ==
    LET tags == {<<o, TagEnd(text, o)>> : o \in Opens(text)}
        Starts(i) == \A t \in tags : i <= t[1] \/ t[2] < i
        starts == SelectSeq([i \in DOMAIN text |-> i], Starts)
    IN  [k \in DOMAIN starts |->
            IF text[starts[k]] = Open
            THEN [tag |-> TRUE, words |-> Words(text, starts[k])]
            ELSE [tag |-> FALSE, words |-> <<text[starts[k]]>>]]

IsOpenBlock(tok) == tok.tag /\ tok.words[1] = "#each"
IsCloseBlock(tok) == tok.tag /\ tok.words[1] = "/each"

\* the number of blocks open after the i-th token, for i from 0
Levels(toks) ==
    LET opens == {j \in DOMAIN toks : IsOpenBlock(toks[j])}
        closes == {j \in DOMAIN toks : IsCloseBlock(toks[j])}
    IN  [i \in 0..Len(toks) |->
            Cardinality({j \in opens : j <= i}) - Cardinality({j \in closes : j <= i})]

\* every block is closed and nothing is closed that was not opened
Balanced(toks) ==
    LET level == Levels(toks)
    IN  /\ \A i \in DOMAIN toks : level[i] >= 0
        /\ level[Len(toks)] = 0

\* the {{/each}} that closes the block opened by the i-th token
BlockEnd(toks, i) ==
    LET level == Levels(toks)
    IN  CHOOSE k \in (i + 1)..Len(toks) :
            /\ level[k] = level[i] - 1
            /\ \A j \in (i + 1)..(k - 1) : level[j] >= level[i]

\* A path names a field of the current scope: inside {{#each items}} that is
\* the item, whose fields are those of ItemContext; a name the scope does not
\* have is a missing value
Lookup(scope, name) ==
    IF name \in DOMAIN scope THEN scope[name] ELSE Missing

\* a helper parameter: a string literal or a path
ParamValue(scope, root, word) ==
    IF word = "\"USD\"" THEN Str(USD)
    ELSE IF word = "\"EUR\"" THEN Str(EUR)
    ELSE Lookup(scope, word)

\* The helper with the second parameter ignored
MoneyOfContextCurrency(words, scope, root) ==
    LET value == IF Len(words) >= 2 /\ ParamValue(scope, root, words[2]).kind = "num"
                 THEN ParamValue(scope, root, words[2]).hundredths
                 ELSE 0
    IN  format_money(value, root.currency.text)

\* the `money` helper: h.param(0) as a number or 0.0, h.param(1) as a string
\* or the "currency" of the context data or "EUR"
MoneyHelper(words, scope, root) ==
    LET value == IF Len(words) >= 2 /\ ParamValue(scope, root, words[2]).kind = "num"
                 THEN ParamValue(scope, root, words[2]).hundredths
                 ELSE 0
        currency == IF Len(words) >= 3 /\ ParamValue(scope, root, words[3]).kind = "str"
                    THEN ParamValue(scope, root, words[3]).text
                    ELSE IF "currency" \in DOMAIN root /\ root.currency.kind = "str"
                    THEN root.currency.text
                    ELSE EUR
    IN  format_money(value, currency)

Failed == [ok |-> FALSE, out |-> <<>>]
Done(text) == [ok |-> TRUE, out |-> text]

\* the outputs of the parts in order, or the failure of any of them
Joined(parts) ==
    IF \E k \in DOMAIN parts : ~parts[k].ok THEN Failed
    ELSE Done(Flatten([k \in DOMAIN parts |-> parts[k].out]))

\* rendering of a balanced token list: a plain piece as it is, a block once
\* per element with the element as the scope, the helper, a field; ok is
\* FALSE when a tag calls a helper that is not registered
RECURSIVE Eval(_, _, _)
Eval(toks, scope, root) ==
    LET level == Levels(toks)
        Outermost(i) == level[i - 1] = 0
        tops == SelectSeq([i \in DOMAIN toks |-> i], Outermost)
        Part(i) ==
            LET tok == toks[i]
            IN  IF ~tok.tag THEN Done(tok.words)
                ELSE IF IsOpenBlock(tok)
                THEN LET body == SubSeq(toks, i + 1, BlockEnd(toks, i) - 1)
                         v == IF Len(tok.words) = 2
                              THEN Lookup(scope, tok.words[2]) ELSE Missing
                     IN  IF Len(tok.words) # 2 THEN Failed
                         ELSE IF v.kind # "arr" THEN Done(<<>>)
                         ELSE Joined([e \in DOMAIN v.elems |->
                                         Eval(body, v.elems[e], root)])
                ELSE IF IsCloseBlock(tok) THEN Done(<<>>)
                ELSE IF tok.words[1] = "money"
                THEN Done(MoneyHelper(tok.words, scope, root))
                ELSE IF Len(tok.words) = 1
                THEN Done(RenderValue(Lookup(scope, tok.words[1])))
                ELSE Failed
    IN  Joined([k \in DOMAIN tops |-> Part(tops[k])])

\* handlebars.render_template(input, &ctx): Err for a template that does not
\* parse or does not render
render_template(input, ctx) ==
    LET toks == Tokens(input)
    IN  IF ~Parses(input) THEN Failed
        ELSE IF ~Balanced(toks) THEN Failed
        ELSE Eval(toks, ctx, ctx)

----------------------------------------------------------------------------
(* build_invoice_pdf: the document                                         *)

\* The fallback left out: a template that fails to expand gives nothing
RenderOrNothing(input, ctx) ==
    IF IsBlank(input) THEN <<>>
    ELSE LET rendered == render_template(input, ctx)
         IN  IF rendered.ok THEN rendered.out ELSE <<>>

\* the closure `render`: nothing for a blank template, the expansion of the
\* template, or the template itself when the expansion fails
render(input, ctx) ==
    IF IsBlank(input) THEN <<>>
    ELSE LET rendered == render_template(input, ctx)
         IN  IF rendered.ok THEN rendered.out ELSE input

\* the page of lines 786-803 around the rendered template; its style rules
\* are written {{ .. }} in the format string and come out in single braces
ShellOpen == <<"<!doctype html>", "<", "h", "t", "m", "l", ">",
               "<head><style>body { font-family }</style></head>", "<body>">>
ShellClose == <<"</body>", "</html>">>

\* Every custom template wrapped, whatever it renders to
AlwaysWrapped(template_html) == ShellOpen \o template_html \o ShellClose

\* lines 782-805: a rendered template that holds "<html" in any letter case is
\* the document, any other is put into the page
CustomDocument(template_html) ==
    IF contains(to_lowercase(template_html), HtmlTag)
    THEN template_html
    ELSE ShellOpen \o template_html \o ShellClose

\* the text format! makes of lines 809-874: the five fields are written into
\* the page, and every {{ and }} of the format string comes out as one brace,
\* those around the style rules and those around the placeholders alike
DefaultPage(invoice) ==
    <<"<!doctype html>", "<", "h", "t", "m", "l", ">",
      "<head><style>body { font-family }</style></head><body>", "<h1>Invoice</h1>">>
    \o invoice.user_address
    \o <<"Invoice ID: ">> \o UuidText(invoice.id)
    \o <<"Date: ">> \o DateText(invoice.date)
    \o <<"<h2>Bill To</h2>">> \o invoice.client_name
    \o <<"<div>">> \o invoice.client_address
    \o <<"<table><tbody>",
          "{#each items}",
          "<tr>", "<td>", "{description}", "</td>",
          "<td>", "{quantity}", "</td>",
          "<td>", "{unit_price}", "</td>",
          "<td>", "{currency} {line_total}", "</td>",
          "</tr>",
          "{/each}",
          "</tbody></table>",
          "Subtotal: {currency} {subtotal}",
          "Total: {currency} {total_amount}",
          "<h2>Notes</h2>", "{invoice_note}",
          "</body>", "</html>">>

\* lines 807-883: the built-in page, expanded, or as it is when that fails
DefaultDocument(invoice, ctx) ==
    LET html_template == DefaultPage(invoice)
        rendered == render_template(html_template, ctx)
    IN  IF rendered.ok THEN rendered.out ELSE html_template

\* the text handed to wkhtmltopdf
InvoiceHtml(invoice, items, template) ==
    LET ctx == RenderContext(invoice, items)
    IN  IF template.is_custom
        THEN CustomDocument(render(template.html, ctx))
        ELSE DefaultDocument(invoice, ctx)

\* a render whose document depends on more than its three arguments: on what
\* the converter did with it
DocumentByOutcome(invoice, items, template, backend) ==
    [ document |-> IF backend = "pdf" THEN InvoiceHtml(invoice, items, template)
                   ELSE <<>>,
      ok       |-> backend = "pdf",
      error    |-> IF backend = "pdf" THEN "" ELSE backend ]

\* build_invoice_pdf: the document and what the converter made of it
build_invoice_pdf(invoice, items, template, backend) ==
    [ document |-> InvoiceHtml(invoice, items, template),
      ok       |-> backend = "pdf",
      error    |-> IF backend = "pdf" THEN "" ELSE backend ]

----------------------------------------------------------------------------
(* Requests and responses *)

NoReq == [op |-> "none", user |-> "", id |-> 0, payload |-> <<>>]

StatusOk == 200
StatusNoContent == 204
StatusBadRequest == 400
StatusNotFound == 404
StatusServerError == 500
StatusUnauthorized == 401

\* Err((status, message))
Err(status, message) ==
    [status |-> status, error |-> message, invoice |-> None, items |-> <<>>,
     list |-> <<>>, template |-> None, document |-> <<>>]

\* Ok(Json(InvoiceResponse { .., items }))
OkInvoice(row, items) ==
    [status |-> StatusOk, error |-> "", invoice |-> Some(row), items |-> items,
     list |-> <<>>, template |-> None, document |-> <<>>]

NoResp == [status |-> 0, error |-> "", invoice |-> None, items |-> <<>>,
           list |-> <<>>, template |-> None, document |-> <<>>]

\* A connection with no create_invoice in flight
Idle == [open |-> FALSE]

\* No converter process has been spawned
NoExchange == [parent |-> "idle"]

\* The server is between requests: the last response has been sent
Serving == req.op = "none"

\* The response leaves the handler; nothing of the request stays behind
Respond ==
    /\ req.op # "none"
    /\ req' = NoReq
    /\ resp' = NoResp
    /\ UNCHANGED <<db, txns, others>>

Reject(r, status, message) ==
    /\ req' = r
    /\ resp' = Err(status, message)
    /\ UNCHANGED <<db, txns, others>>

----------------------------------------------------------------------------
(* POST /invoices *)

create_invoice(u, payload) ==
    LET r == [op |-> "create_invoice", user |-> u, id |-> 0, payload |-> payload]
        user == users[u]
        company == FindCompany(payload.company_id, u)
        total_amount == ComputeTotalAmount(payload.items)
        description == IF Len(payload.items) > 0 THEN payload.items[1].description
                       ELSE <<"Line items">>
        template_id == resolve_template_id(u, payload.template_id)
        id == Len(invoices) + 1
        created ==
            [ id             |-> id,
              invoice_number |-> next_invoice_number(u),
              user_id        |-> Some(u),
              company_id     |-> Some(Unwrap(company).id),
              template_id    |-> template_id.value,
              client_name    |-> Unwrap(company).name,
              client_address |-> Unwrap(company).address,
              description    |-> description,
              amount         |-> total_amount,
              currency       |-> payload.currency,
              user_address   |-> Unwrap(user.address),
              total_amount   |-> total_amount,
              date           |-> payload.date ]
    IN
    /\ Serving
    /\ IF user.address = None
       THEN Reject(r, StatusBadRequest, "User address is required")
       ELSE IF ItemsMissing(payload.items)
       THEN Reject(r, StatusBadRequest, "At least one line item is required")
       ELSE IF company = None
       THEN Reject(r, StatusBadRequest, "Invalid company")
       ELSE IF ~template_id.ok
       THEN Reject(r, StatusBadRequest, template_id.error)
       ELSE /\ Len(invoices) < MaxInvoices
            /\ invoices' = Append(invoices, created)
            /\ line_items' = Append(line_items, InsertItems(payload.items))
            /\ req' = r
            /\ resp' = OkInvoice(created, InsertItems(payload.items))
            /\ UNCHANGED <<users, companies, templates, txns, others>>

----------------------------------------------------------------------------
(* POST /invoices, its awaits interleaved with other requests: the handler   *)
(* up to next_invoice_number, then the inserts on the transaction and the    *)
(* commit.  Rows inserted on a transaction are invisible until it commits.   *)

OpenTxns == {c \in Connections : txns[c].open}

\* The count taken again at the insert
RecountedNumber(c) == next_invoice_number(txns[c].user)

\* invoice_number: Set(invoice_number), the local computed before the insert
InsertedNumber(c) == txns[c].invoice_number

begin_create_invoice(c, u, payload) ==
    LET r == [op |-> "create_invoice", user |-> u, id |-> 0, payload |-> payload]
        user == users[u]
        company == FindCompany(payload.company_id, u)
        template_id == resolve_template_id(u, payload.template_id)
    IN
    /\ ~txns[c].open
    /\ IF user.address = None
       THEN Reject(r, StatusBadRequest, "User address is required")
       ELSE IF ItemsMissing(payload.items)
       THEN Reject(r, StatusBadRequest, "At least one line item is required")
       ELSE IF company = None
       THEN Reject(r, StatusBadRequest, "Invalid company")
       ELSE IF ~template_id.ok
       THEN Reject(r, StatusBadRequest, template_id.error)
       ELSE /\ Len(invoices) + Cardinality(OpenTxns) < MaxInvoices
            /\ txns' = [txns EXCEPT ![c] =
                          [ open           |-> TRUE,
                            user           |-> u,
                            payload        |-> payload,
                            user_address   |-> Unwrap(user.address),
                            company        |-> Unwrap(company),
                            total_amount   |-> ComputeTotalAmount(payload.items),
                            description    |-> payload.items[1].description,
                            template_id    |-> template_id.value,
                            invoice_number |-> next_invoice_number(u) ]]
            /\ UNCHANGED <<db, req, resp, others>>

finish_create_invoice(c) ==
    LET txn == txns[c]
        created ==
            [ id             |-> Len(invoices) + 1,
              invoice_number |-> InsertedNumber(c),
              user_id        |-> Some(txn.user),
              company_id     |-> Some(txn.company.id),
              template_id    |-> txn.template_id,
              client_name    |-> txn.company.name,
              client_address |-> txn.company.address,
              description    |-> txn.description,
              amount         |-> txn.total_amount,
              currency       |-> txn.payload.currency,
              user_address   |-> txn.user_address,
              total_amount   |-> txn.total_amount,
              date           |-> txn.payload.date ]
    IN
    /\ txn.open
    /\ invoices' = Append(invoices, created)
    /\ line_items' = Append(line_items, InsertItems(txn.payload.items))
    /\ req' = [op |-> "create_invoice", user |-> txn.user, id |-> 0,
               payload |-> txn.payload]
    /\ resp' = OkInvoice(created, InsertItems(txn.payload.items))
    /\ txns' = [txns EXCEPT ![c] = Idle]
    /\ UNCHANGED <<users, companies, templates, others>>

----------------------------------------------------------------------------
(* PATCH /invoices/{id} *)

\* The amount field written to `amount` alone
ApplyAmountOnly(existing, company, resolved, payload) ==
    LET a1 == IF IsSome(payload.client_name)
              THEN [existing EXCEPT !.client_name = Unwrap(payload.client_name)]
              ELSE existing
        a2 == IF IsSome(payload.client_address)
              THEN [a1 EXCEPT !.client_address = Unwrap(payload.client_address)]
              ELSE a1
        a3 == IF IsSome(payload.company_id)
              THEN [a2 EXCEPT !.company_id = Some(Unwrap(company).id),
                              !.client_name = Unwrap(company).name,
                              !.client_address = Unwrap(company).address]
              ELSE a2
        a4 == IF IsSome(payload.template_id)
              THEN [a3 EXCEPT !.template_id = resolved.value]
              ELSE a3
        a5 == IF IsSome(payload.description)
              THEN [a4 EXCEPT !.description = Unwrap(payload.description)]
              ELSE a4
        a6 == IF IsSome(payload.amount)
              THEN [a5 EXCEPT !.amount = Unwrap(payload.amount)]
              ELSE a5
        a7 == IF IsSome(payload.currency)
              THEN [a6 EXCEPT !.currency = Unwrap(payload.currency)]
              ELSE a6
    IN  IF IsSome(payload.date)
        THEN [a7 EXCEPT !.date = Unwrap(payload.date)]
        ELSE a7

\* `active`: the row as the request's fields overwrite it, up to the items
ApplyFields(existing, company, resolved, payload) ==
    LET a1 == IF IsSome(payload.client_name)
              THEN [existing EXCEPT !.client_name = Unwrap(payload.client_name)]
              ELSE existing
        a2 == IF IsSome(payload.client_address)
              THEN [a1 EXCEPT !.client_address = Unwrap(payload.client_address)]
              ELSE a1
        a3 == IF IsSome(payload.company_id)
              THEN [a2 EXCEPT !.company_id = Some(Unwrap(company).id),
                              !.client_name = Unwrap(company).name,
                              !.client_address = Unwrap(company).address]
              ELSE a2
        a4 == IF IsSome(payload.template_id)
              THEN [a3 EXCEPT !.template_id = resolved.value]
              ELSE a3
        a5 == IF IsSome(payload.description)
              THEN [a4 EXCEPT !.description = Unwrap(payload.description)]
              ELSE a4
        a6 == IF IsSome(payload.amount)
              THEN [a5 EXCEPT !.amount = Unwrap(payload.amount),
                              !.total_amount = Unwrap(payload.amount)]
              ELSE a5
        a7 == IF IsSome(payload.currency)
              THEN [a6 EXCEPT !.currency = Unwrap(payload.currency)]
              ELSE a6
    IN  IF IsSome(payload.date)
        THEN [a7 EXCEPT !.date = Unwrap(payload.date)]
        ELSE a7

\* `active` once the request's items have set the totals and the description
ApplyItems(active, items) ==
    LET total_amount == ComputeTotalAmount(items)
    IN  [active EXCEPT !.amount = total_amount,
                       !.total_amount = total_amount,
                       !.description = IF Len(items) > 0 THEN items[1].description
                                       ELSE @]

\* The inserts without the delete_many before them
AppendItems(table, id, items) == [table EXCEPT ![id] = @ \o InsertItems(items)]

\* delete_many().filter(InvoiceId.eq(id)) and then the inserts, in one transaction
ReplaceItems(table, id, items) == [table EXCEPT ![id] = InsertItems(items)]

update_invoice(u, id, payload) ==
    LET r == [op |-> "update_invoice", user |-> u, id |-> id, payload |-> payload]
        existing == FindInvoice(id, u)
        company == IF IsSome(payload.company_id)
                   THEN FindCompany(Unwrap(payload.company_id), u) ELSE None
        resolved == IF IsSome(payload.template_id)
                    THEN resolve_template_id(u, payload.template_id)
                    ELSE [ok |-> TRUE, value |-> None, error |-> ""]
        active == ApplyFields(Unwrap(existing), company, resolved, payload)
    IN
    /\ Serving
    /\ IF existing = None
       THEN Reject(r, StatusNotFound, "Invoice not found")
       ELSE IF IsSome(payload.company_id) /\ company = None
       THEN Reject(r, StatusBadRequest, "Invalid company")
       ELSE IF ~resolved.ok
       THEN Reject(r, StatusBadRequest, resolved.error)
       ELSE IF IsSome(payload.items)
       THEN IF ItemsMissing(Unwrap(payload.items))
            THEN Reject(r, StatusBadRequest, "At least one line item is required")
            ELSE LET items == Unwrap(payload.items)
                     updated == ApplyItems(active, items)
                 IN  /\ invoices' = [invoices EXCEPT ![id] = updated]
                     /\ line_items' = ReplaceItems(line_items, id, items)
                     /\ req' = r
                     /\ resp' = OkInvoice(updated, InsertItems(items))
                     /\ UNCHANGED <<users, companies, templates, txns, others>>
       ELSE /\ invoices' = [invoices EXCEPT ![id] = active]
            /\ \E items \in load_items(id) :
                   resp' = OkInvoice(active, items)
            /\ req' = r
            /\ UNCHANGED <<users, companies, templates, line_items, txns, others>>

----------------------------------------------------------------------------
(* GET /invoices/{id}, GET /invoices, GET /invoices/{id}/pdf *)

get_invoice(u, id) ==
    LET r == [op |-> "get_invoice", user |-> u, id |-> id, payload |-> <<>>]
        invoice == FindInvoice(id, u)
    IN
    /\ Serving
    /\ IF invoice = None
       THEN Reject(r, StatusNotFound, "Invoice not found")
       ELSE /\ \E items \in load_items(id) :
                   resp' = OkInvoice(Unwrap(invoice), items)
            /\ req' = r
            /\ UNCHANGED <<db, txns, others>>

\* The responses list_invoices may give for the rows `ids`, in that order
RECURSIVE ListResponses(_)
ListResponses(ids) ==
    IF ids = <<>> THEN {<<>>}
    ELSE { <<[invoice |-> invoices[Head(ids)], items |-> items]>> \o rest :
             items \in load_items(Head(ids)), rest \in ListResponses(Tail(ids)) }

\* The caller's invoice ids, in ascending order
RECURSIVE OwnedIds(_, _)
OwnedIds(u, n) ==
    IF n = 0 THEN <<>>
    ELSE IF invoices[n].user_id = Some(u)
         THEN Append(OwnedIds(u, n - 1), n)
         ELSE OwnedIds(u, n - 1)

list_invoices(u) ==
    LET r == [op |-> "list_invoices", user |-> u, id |-> 0, payload |-> <<>>]
    IN
    /\ Serving
    /\ \E ids \in Orders(OwnedIds(u, Len(invoices))) :
       \E list \in ListResponses(ids) :
           resp' = [status |-> StatusOk, error |-> "", invoice |-> None,
                    items |-> <<>>, list |-> list, template |-> None,
                    document |-> <<>>]
    /\ req' = r
    /\ UNCHANGED <<db, txns, others>>

\* What the converter process does with the document
BackendOutcomes ==
    {"pdf", "failed to start", "stdin write failed", "wait failed", "exit failure"}

get_invoice_pdf(u, id, backend) ==
    LET r == [op |-> "get_invoice_pdf", user |-> u, id |-> id, payload |-> <<>>]
        invoice == FindInvoice(id, u)
        template == load_template(Unwrap(invoice).user_id, Unwrap(invoice).template_id)
    IN
    /\ Serving
    /\ IF invoice = None
       THEN Reject(r, StatusNotFound, "Invoice not found")
       ELSE /\ \E items \in load_items(id) :
                   LET pdf == build_invoice_pdf(Unwrap(invoice), items, template, backend)
                   IN  resp' = [status |-> IF pdf.ok THEN StatusOk
                                           ELSE StatusServerError,
                                error |-> pdf.error,
                                invoice |-> Some(Unwrap(invoice)), items |-> items,
                                list |-> <<>>, template |-> Some(template),
                                document |-> pdf.document]
            /\ req' = r
            /\ UNCHANGED <<db, txns, others>>

----------------------------------------------------------------------------
(* POST, PATCH, DELETE /invoice-templates *)

Answer(status) ==
    [status |-> status, error |-> "", invoice |-> None, items |-> <<>>,
     list |-> <<>>, template |-> None, document |-> <<>>]

create_template(u, payload) ==
    LET r == [op |-> "create_template", user |-> u, id |-> 0, payload |-> payload]
        id == Len(templates) + 1
    IN
    /\ Serving
    /\ IF payload.name = ""
       THEN Reject(r, StatusBadRequest, "Name is required")
       ELSE /\ Len(templates) < MaxTemplates
            /\ templates' = Append(templates,
                                   Some([id |-> id, user_id |-> u,
                                         name |-> payload.name, html |-> payload.html]))
            /\ req' = r
            /\ resp' = Answer(StatusOk)
            /\ UNCHANGED <<users, companies, invoices, line_items, txns, others>>

update_template(u, id, payload) ==
    LET r == [op |-> "update_template", user |-> u, id |-> id, payload |-> payload]
        existing == FindTemplate(id, u)
    IN
    /\ Serving
    /\ IF existing = None
       THEN Reject(r, StatusNotFound, "Template not found")
       ELSE IF payload.name = ""
       THEN Reject(r, StatusBadRequest, "Name is required")
       ELSE /\ templates' = [templates EXCEPT ![id] =
                               Some([Unwrap(existing) EXCEPT !.name = payload.name,
                                                             !.html = payload.html])]
            /\ req' = r
            /\ resp' = Answer(StatusOk)
            /\ UNCHANGED <<users, companies, invoices, line_items, txns, others>>

\* The foreign key without its ON DELETE action taking effect
KeepReferences(table, id) == table

\* fk_invoice_template: ON DELETE SET NULL on invoice.template_id
OnDeleteTemplate(table, id) ==
    [i \in DOMAIN table |->
        IF table[i].template_id = Some(id)
        THEN [table[i] EXCEPT !.template_id = None]
        ELSE table[i]]

delete_template(u, id) ==
    LET r == [op |-> "delete_template", user |-> u, id |-> id, payload |-> <<>>]
        existing == FindTemplate(id, u)
    IN
    /\ Serving
    /\ IF existing = None
       THEN Reject(r, StatusNotFound, "Template not found")
       ELSE /\ templates' = [templates EXCEPT ![id] = None]
            /\ invoices' = OnDeleteTemplate(invoices, id)
            /\ req' = r
            /\ resp' = Answer(StatusNoContent)
            /\ UNCHANGED <<users, companies, line_items, txns, others>>

----------------------------------------------------------------------------

Init ==
    /\ users = [u \in Users |->
                  [id |-> u,
                   address |-> IF u = "u3" THEN None ELSE Some(<<"addr", u>>),
                   company_id |-> IF u = "u3" THEN None
                                  ELSE Some(IF u = "u1" THEN 1 ELSE 2)]]
    /\ companies = [c \in CompanyIds |->
                      [id |-> c,
                       user_id |-> Some(IF c = 1 THEN "u1" ELSE "u2"),
                       name |-> IF c = 1 THEN <<"client-1">> ELSE <<"client-2">>,
                       address |-> IF c = 1 THEN <<"street-1">> ELSE <<"street-2">>,
                       registration_number |-> <<"reg">>]]
    /\ templates = <<>>
    /\ invoices = <<>>
    /\ line_items = <<>>
    /\ req = NoReq
    /\ resp = NoResp
    /\ txns = [c \in Connections |-> Idle]
    /\ sessions = <<>>
    /\ now = 0
    /\ exchange = NoExchange

----------------------------------------------------------------------------
(* The requests explored *)

CompanyOf(u) == IF u = "u1" THEN 1 ELSE 2
OtherCompany(u) == IF u = "u1" THEN 2 ELSE 1

NewInvoice(c, t, items) ==
    [company_id |-> c, template_id |-> t, client_name |-> <<"n">>, client_address |-> <<"s">>,
     currency |-> EUR, date |-> 1, items |-> items]

NoChange ==
    [company_id |-> None, template_id |-> None, client_name |-> None,
     client_address |-> None, description |-> None, amount |-> None,
     currency |-> None, date |-> None, items |-> None]

OneItem == <<ItemCycle[1]>>

\* u1 is the tenant whose requests are explored in full; u2 is a second tenant,
\* whose rows u1 must not see and who asks for u1's rows; u3 has signed up and
\* has neither an address nor a company yet.
OtherItems == Run(2, 1)

\* POST /invoices bodies of user u
NewInvoices(u) ==
    IF u = "u1"
    THEN { NewInvoice(CompanyOf(u), None, items) : items \in ItemLists }
         \cup { NewInvoice(OtherCompany(u), None, items) : items \in {<<>>, OneItem} }
         \cup { NewInvoice(CompanyOf(u), Some(t), items) :
                  t \in TemplateIds, items \in {<<>>, OneItem} }
    ELSE IF u = "u2"
    THEN { NewInvoice(CompanyOf(u), None, OtherItems),
           NewInvoice(OtherCompany(u), None, OtherItems) }
    ELSE { NewInvoice(1, None, items) : items \in {<<>>, OneItem} }

\* PATCH /invoices/{id} bodies of user u
InvoiceUpdates(u) ==
    IF u = "u1"
    THEN { [NoChange EXCEPT !.items = Some(items)] : items \in ItemLists }
         \cup { NoChange,
                [NoChange EXCEPT !.amount = Some(9900)],
                [NoChange EXCEPT !.amount = Some(9900), !.items = Some(OneItem)],
                [NoChange EXCEPT !.company_id = Some(CompanyOf(u))],
                [NoChange EXCEPT !.company_id = Some(OtherCompany(u)),
                                 !.items = Some(<<>>)] }
         \cup { [NoChange EXCEPT !.template_id = Some(t), !.items = Some(items)] :
                  t \in TemplateIds, items \in {<<>>, OneItem} }
    ELSE { [NoChange EXCEPT !.items = Some(OtherItems)] }

\* The requests that write invoices
Handle ==
    \E u \in Users :
        \/ \E payload \in NewInvoices(u) : create_invoice(u, payload)
        \/ \E id \in InvoiceIds, payload \in InvoiceUpdates(u) : update_invoice(u, id, payload)

Next == Handle \/ Respond

Spec == Init /\ [][Next]_vars

\* The requests that read invoices, after writes of a few item lists
ReadItemLists == {<<>>} \cup {Run(2, n) : n \in 1..MaxItems}

NewInvoicesR(u) ==
    IF u = "u1"
    THEN { NewInvoice(CompanyOf(u), None, items) : items \in ReadItemLists }
    ELSE { NewInvoice(CompanyOf(u), None, OtherItems) }

InvoiceUpdatesR(u) ==
    IF u = "u1"
    THEN { [NoChange EXCEPT !.items = Some(items)] : items \in ReadItemLists }
         \cup { [NoChange EXCEPT !.amount = Some(9900)] }
    ELSE { [NoChange EXCEPT !.items = Some(OtherItems)] }

HandleR ==
    \E u \in Users :
        \/ \E payload \in NewInvoicesR(u) : create_invoice(u, payload)
        \/ \E id \in InvoiceIds, payload \in InvoiceUpdatesR(u) : update_invoice(u, id, payload)
        \/ \E id \in InvoiceIds : get_invoice(u, id)
        \/ list_invoices(u)
        \/ \E id \in InvoiceIds, backend \in BackendOutcomes : get_invoice_pdf(u, id, backend)

NextR == HandleR \/ Respond

SpecReads == Init /\ [][NextR]_vars

----------------------------------------------------------------------------
(* Claims about amounts, line items and numbers, checked under Spec *)

\* Ownership, read off the tables
OwnsInvoice(u, id) == id \in DOMAIN invoices /\ invoices[id].user_id = <<u>>
OwnsCompany(u, c) == c \in DOMAIN companies /\ companies[c].user_id = <<u>>
OwnsTemplate(u, t) ==
    t \in DOMAIN templates /\ templates[t] # <<>> /\ templates[t][1].user_id = u

\* items.iter().map(|item| item.line_total).sum()
RECURSIVE SumLineTotals(_)
SumLineTotals(rows) ==
    IF rows = <<>> THEN 0 ELSE Head(rows).line_total + SumLineTotals(Tail(rows))

\* The request handled last wrote the item list it carried
WroteItems ==
    /\ resp.status = StatusOk
    /\ \/ req.op = "create_invoice"
       \/ req.op = "update_invoice" /\ IsSome(req.payload.items)

RequestItems ==
    IF req.op = "create_invoice" THEN req.payload.items ELSE Unwrap(req.payload.items)

\* C1: every stored invoice's total_amount is the sum of the line_total of its
\* stored line items, whatever requests were made (no request sets the total
\* apart from the items).
C1_TotalIsSumOfLineItems ==
    \A i \in DOMAIN invoices :
        invoices[i].total_amount = SumLineTotals(line_items[i])

\* The line_total the rule of the data model gives a line-item input
RuleLineTotal(item) ==
    IF item.use_quantity = Some(FALSE)
    THEN item.unit_price
    ELSE item.quantity * item.unit_price

\* C2: every stored row obeys line_total = use_quantity ? quantity*unit_price
\* : unit_price, and a request that writes items stores and returns, for each
\* item in turn, the line_total of the rule, an absent use_quantity counting as
\* true and negative quantities and prices included.
C2_LineTotalRule ==
    /\ \A i \in DOMAIN line_items : \A k \in DOMAIN line_items[i] :
           LET row == line_items[i][k]
           IN  row.line_total = IF row.use_quantity
                                THEN row.quantity * row.unit_price
                                ELSE row.unit_price
    /\ WroteItems =>
           LET id == Unwrap(resp.invoice).id
           IN  /\ Len(resp.items) = Len(RequestItems)
               /\ Len(line_items[id]) = Len(RequestItems)
               /\ \A k \in DOMAIN RequestItems :
                      /\ resp.items[k].line_total = RuleLineTotal(RequestItems[k])
                      /\ line_items[id][k].line_total = RuleLineTotal(RequestItems[k])
                      /\ resp.items[k].use_quantity
                            = (RequestItems[k].use_quantity # Some(FALSE))

C2_Witness ==
    /\ WroteItems
    /\ \E k \in DOMAIN RequestItems :
           RequestItems[k].use_quantity = Some(FALSE) /\ RequestItems[k].quantity < 0
    /\ \E k \in DOMAIN RequestItems :
           RequestItems[k].use_quantity = Some(TRUE) /\ RequestItems[k].unit_price < 0
    /\ req.op = "update_invoice"

\* C3: a request with a non-empty item list persists and returns a
\* total_amount equal to the sum of the line_totals it stores and returns for
\* that list.
C3_TotalOfRequestItems ==
    WroteItems =>
        LET id == Unwrap(resp.invoice).id
        IN  /\ Unwrap(resp.invoice).total_amount = SumLineTotals(resp.items)
            /\ invoices[id].total_amount = SumLineTotals(line_items[id])
            /\ invoices[id] = Unwrap(resp.invoice)
            /\ line_items[id] = resp.items

C3_Witness ==
    /\ WroteItems
    /\ req.op = "create_invoice"
    /\ Len(RequestItems) = 2
    /\ \E k \in DOMAIN RequestItems : RequestItems[k].use_quantity = Some(FALSE)

\* The request in hand passes the checks the handler makes before it looks at
\* the item list
BeforeItemCheck(r) ==
    IF r.op = "create_invoice"
    THEN users[r.user].address # None
    ELSE /\ OwnsInvoice(r.user, r.id)
         /\ r.payload.company_id # None => OwnsCompany(r.user, r.payload.company_id[1])
         /\ r.payload.template_id # None => OwnsTemplate(r.user, r.payload.template_id[1])

CarriesNoItems(r) ==
    \/ r.op = "create_invoice" /\ r.payload.items = <<>>
    \/ r.op = "update_invoice" /\ r.payload.items = Some(<<>>)

C5_ItemsReplaced ==
    [][ (req'.op = "update_invoice" /\ resp'.status = StatusOk
         /\ IsSome(req'.payload.items)) =>
            LET id == req'.id
                L == Unwrap(req'.payload.items)
            IN  /\ DOMAIN line_items' = DOMAIN line_items
                /\ Len(line_items'[id]) = Len(L)
                /\ \A k \in DOMAIN L :
                       /\ line_items'[id][k].description = L[k].description
                       /\ line_items'[id][k].quantity = L[k].quantity
                       /\ line_items'[id][k].unit_price = L[k].unit_price
                       /\ line_items'[id][k].line_total = RuleLineTotal(L[k])
                /\ \A j \in DOMAIN line_items : j # id => line_items'[j] = line_items[j]
                /\ \A j \in DOMAIN invoices : j # id => invoices'[j] = invoices[j]
                /\ invoices'[id].amount = SumLineTotals(line_items'[id])
                /\ invoices'[id].total_amount = SumLineTotals(line_items'[id]) ]_vars

C5_Witness ==
    /\ req.op = "update_invoice"
    /\ resp.status = StatusOk
    /\ req.payload.items = Some(OneItem)
    /\ req.payload.amount = Some(9900)
    /\ Len(invoices) = 2
    /\ \E j \in DOMAIN line_items : j # req.id /\ Len(line_items[j]) = 2

\* C9: the items get_invoice, list_invoices and get_invoice_pdf return are in
\* the order of the request that wrote them last.
C9_ItemsInRequestOrder ==
    /\ (req.op \in {"get_invoice", "get_invoice_pdf"} /\ IsSome(resp.invoice)) =>
           resp.items = line_items[req.id]
    /\ req.op = "list_invoices" =>
           \A k \in DOMAIN resp.list :
               resp.list[k].items = line_items[resp.list[k].invoice.id]

\* The number the characters of s spell in decimal
RECURSIVE DecimalValue(_)
DecimalValue(s) ==
    IF s = <<>> THEN 0
    ELSE 10 * DecimalValue(SubSeq(s, 1, Len(s) - 1))
         + (CHOOSE d \in 0..9 : DigitChars[d + 1] = s[Len(s)])

\* How many invoices up to the i-th belong to the owner of the i-th
RankOfInvoice(i) ==
    Cardinality({j \in 1..i : invoices[j].user_id = invoices[i].user_id})

\* C10: with the calls of an owner one after the other, the n-th invoice of an
\* owner is numbered "IN-" and n in five digits, zero-padded, whatever the
\* other owners have.
C10_NumberPerOwner ==
    \A i \in DOMAIN invoices :
        LET number == invoices[i].invoice_number
        IN  /\ Len(number) = 3 + InvoiceNumberWidth
            /\ SubSeq(number, 1, 3) = <<"I", "N", "-">>
            /\ \A k \in 4..Len(number) : \E d \in 1..10 : number[k] = DigitChars[d]
            /\ DecimalValue(SubSeq(number, 4, Len(number))) = RankOfInvoice(i)

C10_Witness ==
    /\ Len(invoices) = 2
    /\ invoices[1].user_id = Some("u2")
    /\ invoices[2].user_id = Some("u1")
    /\ invoices[2].invoice_number = <<"I", "N", "-", "0", "0", "0", "0", "1">>
    /\ req.op = "create_invoice"

----------------------------------------------------------------------------
(* create_invoice requests that overlap, on MaxConnections connections *)

OverlappingInvoices(u) ==
    IF u = "u1"
    THEN { NewInvoice(CompanyOf(u), None, items) : items \in {<<>>, OneItem, Run(2, 2)} }
    ELSE { NewInvoice(CompanyOf(u), None, OtherItems) }

NextC ==
    \/ \E c \in Connections, u \in {"u1", "u2"} :
           \E payload \in OverlappingInvoices(u) : begin_create_invoice(c, u, payload)
    \/ \E c \in Connections : finish_create_invoice(c)
    \/ Respond

SpecConcurrent == Init /\ [][NextC]_vars

\* C11: invoice numbering is racy: a create_invoice stores the number it
\* computed from the row count it read before its insert, and the insert
\* succeeds whatever was committed since, so that two overlapping requests of
\* one owner that read the same count store the same number.
C11_NumberFromCountReadEarlier ==
    [][ \A c \in Connections :
            (txns[c].open /\ ~txns'[c].open) =>
                LET row == invoices'[Len(invoices')]
                IN  /\ Len(invoices') = Len(invoices) + 1
                    /\ resp'.status = StatusOk
                    /\ row.user_id = Some(txns[c].user)
                    /\ row.invoice_number = txns[c].invoice_number
                    /\ \A d \in Connections \ {c} :
                           (txns[d].open /\ txns[d].user = txns[c].user)
                               => txns'[d] = txns[d] ]_vars

\* Two invoices of one owner carry the same number
C11_Witness ==
    \E i, j \in DOMAIN invoices :
        /\ i < j
        /\ invoices[i].user_id = invoices[j].user_id
        /\ invoices[i].invoice_number = invoices[j].invoice_number

\* C12: every stored invoice has amount equal to total_amount, whatever
\* create_invoice and update_invoice requests were made.
C12_AmountIsTotalAmount ==
    \A i \in DOMAIN invoices : invoices[i].amount = invoices[i].total_amount

C12_Witness ==
    /\ req.op = "update_invoice"
    /\ resp.status = StatusOk
    /\ req.payload.amount = Some(9900)
    /\ req.payload.items = None
    /\ invoices[req.id].amount = 9900
    /\ invoices[req.id].total_amount # SumLineTotals(line_items[req.id])

----------------------------------------------------------------------------
(* The requests explored around templates: few item lists, every template id. *)
(* u2 only creates invoices that name a template.                           *)

TemplateRefs == {None} \cup {Some(t) : t \in TemplateIds}
FewItemLists == {<<>>, OneItem, Run(2, 2)}

TemplateBodies ==
    { [name |-> "t", html |-> <<"<p>", "{{", "client_name", "}}", "</p>">>],
      [name |-> "",  html |-> <<"<p>", "{{", "client_name", "}}", "</p>">>] }

TemplateEdits ==
    { [name |-> "t", html |-> <<"<", "h", "t", "m", "l", ">", "{{", "total_amount", "}}", "</html>">>],
      [name |-> "",  html |-> <<"<", "h", "t", "m", "l", ">", "{{", "total_amount", "}}", "</html>">>] }

NewInvoicesT(u) ==
    IF u = "u1"
    THEN { NewInvoice(CompanyOf(u), t, items) : t \in TemplateRefs, items \in FewItemLists }
         \cup { NewInvoice(OtherCompany(u), Some(t), OneItem) : t \in TemplateIds }
    ELSE { NewInvoice(CompanyOf(u), Some(t), OtherItems) : t \in TemplateIds }

InvoiceUpdatesT(u) ==
    IF u = "u1"
    THEN { [NoChange EXCEPT !.template_id = Some(t), !.items = items] :
             t \in TemplateIds, items \in {None} \cup {Some(l) : l \in FewItemLists} }
         \cup { [NoChange EXCEPT !.template_id = Some(t),
                                 !.company_id = Some(OtherCompany(u))] : t \in TemplateIds }
    ELSE { [NoChange EXCEPT !.template_id = Some(t)] : t \in TemplateIds }

HandleT ==
    \E u \in Users :
        \/ \E payload \in NewInvoicesT(u) : create_invoice(u, payload)
        \/ \E id \in InvoiceIds, payload \in InvoiceUpdatesT(u) : update_invoice(u, id, payload)
        \/ \E id \in InvoiceIds, backend \in BackendOutcomes : get_invoice_pdf(u, id, backend)
        \/ \E payload \in TemplateBodies : create_template(u, payload)
        \/ \E id \in TemplateIds, payload \in TemplateEdits : update_template(u, id, payload)
        \/ \E id \in TemplateIds : delete_template(u, id)

NextT == HandleT \/ Respond

SpecTemplates == Init /\ [][NextT]_vars

----------------------------------------------------------------------------
(* Claims about templates, checked under SpecTemplates *)

\* The request names a template that is missing or another user's
NamesBadTemplate(r) ==
    /\ r.op \in {"create_invoice", "update_invoice"}
    /\ r.payload.template_id # None
    /\ ~OwnsTemplate(r.user, r.payload.template_id[1])

\* The request passes the checks the handler makes before it resolves the template
BeforeTemplateCheck(r) ==
    IF r.op = "create_invoice"
    THEN /\ users[r.user].address # None
         /\ r.payload.items # <<>>
         /\ OwnsCompany(r.user, r.payload.company_id)
    ELSE /\ OwnsInvoice(r.user, r.id)
         /\ r.payload.company_id # None => OwnsCompany(r.user, r.payload.company_id[1])

C7_RenderTemplate ==
    (req.op = "get_invoice_pdf" /\ IsSome(resp.invoice)) =>
        LET invoice == Unwrap(resp.invoice)
            used == Unwrap(resp.template)
            custom == /\ invoice.template_id # None
                      /\ OwnsTemplate(Unwrap(invoice.user_id), invoice.template_id[1])
        IN  /\ used.is_custom <=> custom
            /\ custom => used.html = templates[invoice.template_id[1]][1].html
            /\ ~custom => used = default_template(DefaultNote)
            /\ resp.status # StatusOk =>
                   /\ resp.status = StatusServerError
                   /\ resp.error \in BackendOutcomes \ {"pdf"}

C7_Witness ==
    /\ req.op = "get_invoice_pdf"
    /\ resp.status = StatusOk
    /\ Unwrap(resp.template).is_custom
    /\ contains(Unwrap(resp.template).html, HtmlTag)

\* C8 as stated: a successful delete_template changes no stored field of any
\* invoice and no line item.
C8_NoInvoiceFieldChanges ==
    [][ (req'.op = "delete_template" /\ resp'.status = StatusNoContent) =>
            /\ invoices' = invoices
            /\ line_items' = line_items ]_vars

\* C8 amended: delete_template of an owned template succeeds whether or not
\* invoices reference it; no invoice or line item is deleted, the template_id of
\* each invoice that referenced the template becomes NULL, and no other field
\* of any invoice changes.
C8_OnlyTemplateIdCleared ==
    [][ (req'.op = "delete_template" /\ OwnsTemplate(req'.user, req'.id)) =>
            /\ resp'.status = StatusNoContent
            /\ templates'[req'.id] = None
            /\ line_items' = line_items
            /\ DOMAIN invoices' = DOMAIN invoices
            /\ \A i \in DOMAIN invoices :
                   /\ [invoices'[i] EXCEPT !.template_id = None]
                          = [invoices[i] EXCEPT !.template_id = None]
                   /\ invoices'[i].template_id =
                          IF invoices[i].template_id = Some(req'.id)
                          THEN None ELSE invoices[i].template_id ]_vars

\* u2's invoices are all created naming a template, so one without a
\* template_id referenced the template just deleted
C8_Witness ==
    /\ req.op = "delete_template"
    /\ req.user = "u2"
    /\ resp.status = StatusNoContent
    /\ templates[req.id] = None
    /\ \E i \in DOMAIN invoices :
           /\ invoices[i].user_id = Some("u2")
           /\ invoices[i].template_id = None
           /\ Len(line_items[i]) = 1

----------------------------------------------------------------------------
(* format_money applied to amounts of up to MaxWholeDigits integer digits *)

RECURSIVE Pow10(_)
Pow10(k) == IF k = 0 THEN 1 ELSE 10 * Pow10(k - 1)

\* For each length: the least and the greatest number of that many digits, and
\* the leading digits of 1234567890
WholeParts ==
    {0} \cup UNION { {Pow10(d - 1), Pow10(d) - 1, 1234567890 \div Pow10(10 - d)} :
                       d \in 1..MaxWholeDigits }

MoneyValues ==
    { sign * (100 * whole + frac) :
        sign \in {1, -1}, whole \in WholeParts, frac \in {0, 5, 50, 99} }

Currencies == {EUR, USD, GBP, <<"CHF">>, <<"eur">>, <<>>}

\* format_money(value, currency), called as a plain function
FormatMoney(value, currency) ==
    /\ Serving
    /\ req' = [op |-> "format_money", user |-> "", id |-> 0,
               payload |-> [value |-> value, currency |-> currency]]
    /\ resp' = [NoResp EXCEPT !.status = StatusOk,
                              !.document = format_money(value, currency)]
    /\ UNCHANGED <<db, txns, others>>

NextM ==
    \/ \E value \in MoneyValues, currency \in Currencies : FormatMoney(value, currency)
    \/ Respond

SpecMoney == Init /\ [][NextM]_vars

\* The integer n written with `sep` before every group of three digits
RECURSIVE GroupedDigits(_, _)
GroupedDigits(n, sep) ==
    IF n < 1000 THEN Digits(n)
    ELSE GroupedDigits(n \div 1000, sep)
         \o <<sep, DigitChars[((n \div 100) % 10) + 1],
                   DigitChars[((n \div 10) % 10) + 1],
                   DigitChars[(n % 10) + 1]>>

\* The reference formatter of the claim, on an amount in hundredths
ReferenceMoney(value, currency) ==
    LET abs == IF value < 0 THEN -value ELSE value
        thousands == IF currency = <<"EUR">> THEN "." ELSE ","
        decimal == IF currency = <<"EUR">> THEN "," ELSE "."
    IN  (IF value < 0 THEN <<"-">> ELSE <<>>)
        \o GroupedDigits(abs \div 100, thousands)
        \o <<decimal, DigitChars[((abs \div 10) % 10) + 1], DigitChars[(abs % 10) + 1]>>

\* C18: format_money(value, currency) is the reference formatter: '-' exactly
\* for a negative value, the integer part grouped by threes from the right,
\* the decimal separator, two fractional digits; '.' and ',' for EUR, ',' and
\* '.' for every other code; with the four examples of the specification.
C18_FormatMoneyIsReference ==
    /\ req.op = "format_money" =>
           resp.document = ReferenceMoney(req.payload.value, req.payload.currency)
    /\ format_money(123450, EUR) = <<"1", ".", "2", "3", "4", ",", "5", "0">>
    /\ format_money(123450, USD) = <<"1", ",", "2", "3", "4", ".", "5", "0">>
    /\ format_money(-4200, EUR) = <<"-", "4", "2", ",", "0", "0">>
    /\ format_money(100000000, GBP)
           = <<"1", ",", "0", "0", "0", ",", "0", "0", "0", ".", "0", "0">>

C18_Witness ==
    /\ req.op = "format_money"
    /\ req.payload.value = -12345699
    /\ req.payload.currency = <<"CHF">>
    /\ resp.document = <<"-", "1", "2", "3", ",", "4", "5", "6", ".", "9", "9">>

----------------------------------------------------------------------------
(* build_invoice_pdf applied to one stored invoice: the rows of the        *)
(* database are drawn from small sets and GET /invoices/:id/pdf renders    *)
(* them                                                                    *)

\* Names of the client company: plain, holding an html tag in capitals,
\* completing a tag the template begins, opening a placeholder, and being one
ClientNames ==
    { <<"n">>, <<"<", "H", "T", "M", "L", ">">>, <<"m", "l">>, <<"{{">>,
      <<"{{", "total_amount", "}}">> }

RenderCurrencies == {EUR, USD}

\* the stored rows of up to MaxItems items, and of an invoice that has none
RenderItemLists == {<<>>} \cup {InsertItems(Run(1, n)) : n \in 1..MaxItems}

LegacyTotal == 123450

FragmentTemplate == <<"<p>", "{{", "client_name", "}}", "</p>">>

PageTemplate ==
    <<"<", "H", "t", "M", "L", ">", "{{", "total_amount", "}}", "</html>">>

BegunTagTemplate == <<"<", "h", "t", "{{", "client_name", "}}">>

UnclosedTagTemplate == <<"<p>", "{{", "client_name">>

UnclosedBlockTemplate ==
    <<"<", "h", "t", "m", "l", ">", "{{", "#each", " ", "items", "}}", "x">>

UnknownHelperTemplate == <<"{{", "shout", " ", "client_name", "}}">>

BlankTemplate == <<" ", "\n">>

MoneyTemplate ==
    <<"{{", "money", " ", "total_amount", "}}", "|",
      "{{", "money", " ", "total_amount", " ", "\"USD\"", "}}", "|",
      "{{", "#each", " ", "items", "}}",
      "{{", "money", " ", "line_total", "}}", "/",
      "{{", "money", " ", "line_total", " ", "\"USD\"", "}}", ";",
      "{{", "/each", "}}">>

EachTemplate ==
    <<"{{", "#each", " ", "items", "}}",
      "{{", "description", "}}", "|", "{{", "quantity", "}}", "|",
      "{{", "unit_price", "}}", "|", "{{", "line_total", "}}", "|",
      "{{", "use_quantity", "}}", "|", "{{", "currency", "}}", ";",
      "{{", "/each", "}}">>

TagInBlockTemplate ==
    <<"{{", "#each", " ", "items", "}}", "<", "h", "t", "m", "l", ">", "{{", "/each", "}}">>

RenderTemplates ==
    { FragmentTemplate, PageTemplate, BegunTagTemplate, UnclosedTagTemplate,
      UnclosedBlockTemplate, UnknownHelperTemplate, BlankTemplate,
      MoneyTemplate, EachTemplate, TagInBlockTemplate }

StoredInvoice(client_name, currency, items, total_amount, template_id) ==
    [ id             |-> 1,
      invoice_number |-> FormatInvoiceNumber(1),
      user_id        |-> Some("u1"),
      company_id     |-> Some(1),
      template_id    |-> template_id,
      client_name    |-> client_name,
      client_address |-> <<"street-1">>,
      description    |-> <<"Line items">>,
      amount         |-> total_amount,
      currency       |-> currency,
      user_address   |-> <<"addr", "u1">>,
      total_amount   |-> total_amount,
      date           |-> 1 ]

InitRender ==
    /\ users = [u \in Users |->
                  [id |-> u,
                   address |-> IF u = "u3" THEN None ELSE Some(<<"addr", u>>),
                   company_id |-> IF u = "u3" THEN None
                                  ELSE Some(IF u = "u1" THEN 1 ELSE 2)]]
    /\ \E client_name \in ClientNames, currency \in RenderCurrencies,
          items \in RenderItemLists, legacy \in BOOLEAN,
          html \in {<<>>} \cup {<<h>> : h \in RenderTemplates} :
           /\ companies = [c \in CompanyIds |->
                             [id |-> c,
                              user_id |-> Some(IF c = 1 THEN "u1" ELSE "u2"),
                              name |-> IF c = 1 THEN client_name ELSE <<"client-2">>,
                              address |-> IF c = 1 THEN <<"street-1">> ELSE <<"street-2">>,
                       registration_number |-> <<"reg">>]]
           /\ templates = IF html = <<>> THEN <<>>
                          ELSE <<Some([id |-> 1, user_id |-> "u1", name |-> "t",
                                       html |-> html[1]])>>
           /\ invoices = <<StoredInvoice(client_name, currency, items,
                                         IF legacy THEN LegacyTotal
                                         ELSE SumLineTotalsOf(items),
                                         IF html = <<>> THEN None ELSE Some(1))>>
           /\ line_items = <<items>>
    /\ req = NoReq
    /\ resp = NoResp
    /\ txns = [c \in Connections |-> Idle]
    /\ sessions = <<>>
    /\ now = 0
    /\ exchange = NoExchange

NextRender ==
    \/ \E u \in {"u1", "u2"}, backend \in BackendOutcomes : get_invoice_pdf(u, 1, backend)
    \/ Respond

SpecRender == InitRender /\ [][NextRender]_vars

\* the invoice, the template and the context of the document in `resp`
Rendered == req.op = "get_invoice_pdf" /\ IsSome(resp.invoice)
UsedTemplate == Unwrap(resp.template)
UsedContext == RenderContext(Unwrap(resp.invoice), resp.items)
InPage(text) == ShellOpen \o text \o ShellClose

\* the text holds "<html" in some letter case
HoldsHtmlTag(text) ==
    \E i \in 1..(Len(text) - 4) :
        /\ text[i] = "<"
        /\ text[i + 1] \in {"h", "H"}
        /\ text[i + 2] \in {"t", "T"}
        /\ text[i + 3] \in {"m", "M"}
        /\ text[i + 4] \in {"l", "L"}

\* C13: for a custom template the document is the rendered template itself
\* when the rendered result holds "<html" in any letter case, and otherwise
\* the fixed page with the rendered result in its body.
C13_LayoutByRenderedResult ==
    (Rendered /\ UsedTemplate.is_custom) =>
        LET rendered == render(UsedTemplate.html, UsedContext)
        IN  resp.document = IF HoldsHtmlTag(rendered) THEN rendered
                            ELSE InPage(rendered)

\* a custom template whose tag is written in capitals is the document as
\* rendered
C13_Witness ==
    /\ Rendered
    /\ resp.status = StatusOk
    /\ UsedTemplate.html = PageTemplate
    /\ Unwrap(resp.invoice).total_amount = LegacyTotal
    /\ resp.document = <<"<", "H", "t", "M", "L", ">",
                         "1", "2", "3", "4", ".", "5", "</html>">>

\* the pieces of a template that lie outside every block, with a break
\* where a tag or a block stands
OutsideBlocks(text) ==
    LET toks == Tokens(text)
        level == Levels(toks)
    IN  [k \in DOMAIN toks |->
            IF ~toks[k].tag /\ level[k] = 0 THEN toks[k].words[1]
            ELSE "{{}}"]

\* the template text holds "<html" where no expansion can drop it
TagOutsideBlocks(text) ==
    IF Parses(text) /\ Balanced(Tokens(text))
    THEN HoldsHtmlTag(OutsideBlocks(text))
    ELSE HoldsHtmlTag(text)

UsedInvoice == Unwrap(resp.invoice)

IsRowStart(doc, i) == doc[i] = "<tr>"

\* the item rows of a document: from each "<tr>" to the "</tr>" after it
ItemRows(doc) ==
    LET AtRow(i) == IsRowStart(doc, i)
        starts == SelectSeq([i \in DOMAIN doc |-> i], AtRow)
        RowEnd(i) == CHOOSE j \in i..(Len(doc) + 1) :
                        /\ j = Len(doc) + 1 \/ doc[j] = "</tr>"
                        /\ \A k \in i..(j - 1) : doc[k] # "</tr>"
    IN  [r \in DOMAIN starts |-> SubSeq(doc, starts[r], RowEnd(starts[r]) - 1)]

\* an amount as the document may show it: by the money format or as the
\* plain number
ShownAmounts(amount, currency) ==
    {format_money(amount, currency), JsonNumberText(amount)}

\* C15: the document of the built-in template for an invoice with N >= 1 line
\* items has exactly N item rows, the i-th holding the description and the
\* line total of the i-th item, whatever the text fields of the invoice are.
C15_DefaultItemRows ==
    (Rendered /\ ~UsedTemplate.is_custom /\ Len(resp.items) >= 1) =>
        LET rows == ItemRows(resp.document)
        IN  /\ Len(rows) = Len(resp.items)
            /\ \A i \in DOMAIN rows :
                   /\ contains(rows[i], <<"<td>">> \o resp.items[i].description
                                                  \o <<"</td>">>)
                   /\ \E shown \in ShownAmounts(resp.items[i].line_total,
                                                UsedInvoice.currency) :
                          contains(rows[i], shown)

\* C16: the document shows the total of the invoice as format_money writes
\* it for the currency of the invoice, with the built-in template and with
\* a custom template that asks for {{money total_amount}}.
C16_TotalShownAsMoney ==
    (Rendered /\ (~UsedTemplate.is_custom \/ UsedTemplate.html = MoneyTemplate)) =>
        contains(resp.document,
                 format_money(UsedInvoice.total_amount, UsedInvoice.currency))

\* C17: a template that fails to expand does not fail the request: the
\* unexpanded text takes the place of the expanded one, goes through the
\* same layout rule, and only the converter can still fail.
C17_UnexpandedTextOnError ==
    Rendered =>
        /\ (UsedTemplate.is_custom
             /\ ~render_template(UsedTemplate.html, UsedContext).ok)
                => resp.document = IF HoldsHtmlTag(UsedTemplate.html)
                                   THEN UsedTemplate.html
                                   ELSE InPage(UsedTemplate.html)
        /\ (~UsedTemplate.is_custom
             /\ ~render_template(DefaultPage(UsedInvoice), UsedContext).ok)
                => resp.document = DefaultPage(UsedInvoice)
        /\ resp.status \in {StatusOk, StatusServerError}
        /\ resp.status = StatusServerError => resp.error \in BackendOutcomes \ {"pdf"}

\* a template with a tag that is never closed, answered with the document
\* that holds the template text
C17_Witness ==
    /\ Rendered
    /\ resp.status = StatusOk
    /\ UsedTemplate.html = UnclosedTagTemplate
    /\ resp.document = InPage(<<"<p>", "{{", "client_name">>)

\* C19: {{money v c}} writes format_money(v, c) and {{money v}} writes
\* format_money(v, currency of the invoice), outside and inside
\* {{#each items}}.
C19_MoneyHelper ==
    (Rendered /\ UsedTemplate.is_custom /\ UsedTemplate.html = MoneyTemplate) =>
        resp.document =
            InPage(format_money(UsedInvoice.total_amount, UsedInvoice.currency)
                   \o <<"|">> \o format_money(UsedInvoice.total_amount, USD)
                   \o <<"|">>
                   \o Flatten([i \in DOMAIN resp.items |->
                          format_money(resp.items[i].line_total, UsedInvoice.currency)
                          \o <<"/">>
                          \o format_money(resp.items[i].line_total, USD)
                          \o <<";">>]))

C19_Witness ==
    /\ Rendered
    /\ resp.status = StatusOk
    /\ UsedTemplate.html = MoneyTemplate
    /\ UsedInvoice.currency = EUR
    /\ Len(resp.items) = 2
    /\ contains(resp.document,
                <<"1", ".", "2", "3", "4", ",", "5", "0", "|",
                  "1", ",", "2", "3", "4", ".", "5", "0", "|">>)
    /\ contains(resp.document,
                <<"1", "0", ",", "0", "0", "/", "1", "0", ".", "0", "0", ";">>)

\* C20: inside {{#each items}} the five item fields are those of the current
\* item and {{currency}} is the currency of the invoice, in a custom template
\* and in the rows of the built-in one.
C20_ItemFieldsAndCurrency ==
    /\ (Rendered /\ UsedTemplate.is_custom /\ UsedTemplate.html = EachTemplate) =>
            resp.document =
                InPage(Flatten([i \in DOMAIN resp.items |->
                          resp.items[i].description
                          \o <<"|">> \o JsonNumberText(100 * resp.items[i].quantity)
                          \o <<"|">> \o JsonNumberText(resp.items[i].unit_price)
                          \o <<"|">> \o JsonNumberText(resp.items[i].line_total)
                          \o <<"|">> \o (IF resp.items[i].use_quantity
                                          THEN <<"true">> ELSE <<"false">>)
                          \o <<"|">> \o UsedInvoice.currency \o <<";">>]))
    /\ (Rendered /\ ~UsedTemplate.is_custom) =>
            \A i \in DOMAIN resp.items :
                contains(resp.document,
                         UsedInvoice.currency \o <<" ">>
                         \o JsonNumberText(resp.items[i].line_total))

----------------------------------------------------------------------------
(* build_invoice_pdf and the converter process, step by step: spawn, then   *)
(* write_all of the HTML into the child's input, then wait_with_output,     *)
(* which closes the input and only then reads what the child wrote.  The    *)
(* pipes hold PipeCapacity bytes; a write to a full pipe and a read from an *)
(* empty open pipe block.  The child is any program: between two system     *)
(* calls it may read its input, write to either output, or exit.            *)

PipeCapacity == 2
MaxHtmlLen == 3
MaxOutput == 3

ChildCalls == {"read", "write stdout", "write stderr"}

\* get_invoice_pdf up to build_invoice_pdf's
\* Command::new("wkhtmltopdf")...spawn(); html_len is the length of the
\* document, `started` whether the operating system could start the program
spawn(html_len, started) ==
    /\ Serving
    /\ exchange.parent \in {"idle", "answered"}
    /\ FindInvoice(1, "u1") # None
    /\ exchange' =
         IF started
         THEN [parent |-> "write_all", to_write |-> html_len, stdin_open |-> TRUE,
               stdin |-> 0, stdout |-> <<>>, stderr |-> <<>>,
               captured |-> <<>>, diagnostic |-> <<>>,
               child |-> "ready", emitted |-> 0, result |-> ""]
         ELSE [parent |-> "returned", to_write |-> html_len, stdin_open |-> FALSE,
               stdin |-> 0, stdout |-> <<>>, stderr |-> <<>>,
               captured |-> <<>>, diagnostic |-> <<>>,
               child |-> "none", emitted |-> 0,
               result |-> "wkhtmltopdf failed to start"]
    /\ UNCHANGED <<db, req, resp, txns, sessions, now>>

\* one write(2) of stdin.write_all(html.as_bytes())
write_all ==
    /\ exchange.parent = "write_all"
    /\ exchange.to_write > 0
    /\ IF exchange.child \in {"exited ok", "exited failure"}
       THEN exchange' = [exchange EXCEPT !.parent = "returned",
                                         !.result = "wkhtmltopdf stdin write failed"]
       ELSE /\ exchange.stdin < PipeCapacity
            /\ exchange' = [exchange EXCEPT !.stdin = @ + 1, !.to_write = @ - 1]
    /\ UNCHANGED <<db, req, resp, txns, sessions, now>>

\* child.wait_with_output() begins: it drops the parent's end of the input
close_stdin ==
    /\ exchange.parent = "write_all"
    /\ exchange.to_write = 0
    /\ exchange' = [exchange EXCEPT !.parent = "wait_with_output",
                                    !.stdin_open = FALSE]
    /\ UNCHANGED <<db, req, resp, txns, sessions, now>>

\* wait_with_output reads both outputs until the child has closed them
read_output ==
    /\ exchange.parent = "wait_with_output"
    /\ \/ /\ exchange.stdout # <<>>
          /\ exchange' = [exchange EXCEPT !.stdout = Tail(@),
                                          !.captured = Append(@, Head(exchange.stdout))]
       \/ /\ exchange.stderr # <<>>
          /\ exchange' = [exchange EXCEPT !.stderr = Tail(@),
                                          !.diagnostic = Append(@, Head(exchange.stderr))]
    /\ UNCHANGED <<db, req, resp, txns, sessions, now>>

\* a wait that gives up on what is still in the pipes
WaitWithoutReading ==
    /\ exchange.parent = "wait_with_output"
    /\ exchange.child \in {"exited ok", "exited failure"}
    /\ exchange' = [exchange EXCEPT !.parent = "returned",
                                    !.result = IF exchange.child = "exited ok"
                                               THEN "pdf" ELSE "exit failure"]
    /\ UNCHANGED <<db, req, resp, txns, sessions, now>>

\* wait_with_output returns once the outputs are at end of file and the
\* child has exited; then output.status decides
wait_with_output ==
    /\ exchange.parent = "wait_with_output"
    /\ exchange.child \in {"exited ok", "exited failure"}
    /\ exchange.stdout = <<>>
    /\ exchange.stderr = <<>>
    /\ exchange' = [exchange EXCEPT !.parent = "returned",
                                    !.result = IF exchange.child = "exited ok"
                                               THEN "pdf" ELSE "exit failure"]
    /\ UNCHANGED <<db, req, resp, txns, sessions, now>>

\* get_invoice_pdf after build_invoice_pdf: Err(e) becomes (500, e), Ok(bytes)
\* the body.  In this specification `document` is the body and `error` the
\* text of the error; String::from_utf8_lossy(&output.stderr) is the bytes read.
answer_pdf ==
    LET r == [op |-> "get_invoice_pdf", user |-> "u1", id |-> 1, payload |-> <<>>]
        ok == exchange.result = "pdf"
    IN
    /\ Serving
    /\ exchange.parent = "returned"
    /\ req' = r
    /\ resp' = [Answer(IF ok THEN StatusOk ELSE StatusServerError) EXCEPT
                  !.error = IF ok THEN ""
                            ELSE IF exchange.result = "exit failure"
                            THEN exchange.diagnostic
                            ELSE exchange.result,
                  !.document = IF ok THEN exchange.captured ELSE <<>>]
    /\ exchange' = [exchange EXCEPT !.parent = "answered"]
    /\ UNCHANGED <<db, txns, sessions, now>>

\* the child enters a system call
child_call(call) ==
    /\ exchange.parent \in {"write_all", "wait_with_output"}
    /\ exchange.child = "ready"
    /\ call \in {"write stdout", "write stderr"} => exchange.emitted < MaxOutput
    /\ exchange' = [exchange EXCEPT !.child = call]
    /\ UNCHANGED <<db, req, resp, txns, sessions, now>>

\* the child's system call returns; the byte it writes is its number
child_return ==
    /\ exchange.parent \in {"write_all", "wait_with_output"}
    /\ \/ /\ exchange.child = "read"
          /\ \/ /\ exchange.stdin > 0
                /\ exchange' = [exchange EXCEPT !.stdin = @ - 1, !.child = "ready"]
             \/ /\ exchange.stdin = 0
                /\ ~exchange.stdin_open
                /\ exchange' = [exchange EXCEPT !.child = "ready"]
       \/ /\ exchange.child = "write stdout"
          /\ Len(exchange.stdout) < PipeCapacity
          /\ exchange' = [exchange EXCEPT !.stdout = Append(@, exchange.emitted + 1),
                                          !.emitted = @ + 1, !.child = "ready"]
       \/ /\ exchange.child = "write stderr"
          /\ Len(exchange.stderr) < PipeCapacity
          /\ exchange' = [exchange EXCEPT !.stderr = Append(@, exchange.emitted + 1),
                                          !.emitted = @ + 1, !.child = "ready"]
    /\ UNCHANGED <<db, req, resp, txns, sessions, now>>

\* the child exits; what it left in its outputs stays readable
child_exit(success) ==
    /\ exchange.parent \in {"write_all", "wait_with_output"}
    /\ exchange.child = "ready"
    /\ exchange' = [exchange EXCEPT !.child = IF success THEN "exited ok"
                                              ELSE "exited failure"]
    /\ UNCHANGED <<db, req, resp, txns, sessions, now>>

ParentStep ==
    write_all \/ close_stdin \/ read_output \/ wait_with_output \/ answer_pdf

ChildStep ==
    \/ \E call \in ChildCalls : child_call(call)
    \/ child_return
    \/ \E success \in BOOLEAN : child_exit(success)

\* one stored invoice of u1, whose PDF is asked for
InitPipe ==
    /\ users = [u \in Users |->
                  [id |-> u,
                   address |-> IF u = "u3" THEN None ELSE Some(<<"addr", u>>),
                   company_id |-> IF u = "u3" THEN None
                                  ELSE Some(IF u = "u1" THEN 1 ELSE 2)]]
    /\ companies = [c \in CompanyIds |->
                      [id |-> c,
                       user_id |-> Some(IF c = 1 THEN "u1" ELSE "u2"),
                       name |-> IF c = 1 THEN <<"client-1">> ELSE <<"client-2">>,
                       address |-> IF c = 1 THEN <<"street-1">> ELSE <<"street-2">>,
                       registration_number |-> <<"reg">>]]
    /\ templates = <<>>
    /\ invoices = <<StoredInvoice(<<"client-1">>, EUR, InsertItems(OneItem),
                                  ComputeTotalAmount(OneItem), None)>>
    /\ line_items = <<InsertItems(OneItem)>>
    /\ req = NoReq
    /\ resp = NoResp
    /\ txns = [c \in Connections |-> Idle]
    /\ sessions = <<>>
    /\ now = 0
    /\ exchange = NoExchange

NextPipe ==
    \/ \E html_len \in 0..MaxHtmlLen, started \in BOOLEAN : spawn(html_len, started)
    \/ ParentStep
    \/ ChildStep
    \/ Respond

SpecPipe == InitPipe /\ [][NextPipe]_vars

\* the parent is in a write to the child's full input
ParentBlockedWriting ==
    /\ exchange.parent = "write_all"
    /\ exchange.to_write > 0
    /\ exchange.stdin = PipeCapacity
    /\ exchange.child \notin {"exited ok", "exited failure"}

\* the child is in a write to one of its full outputs
ChildBlockedWriting ==
    /\ exchange.parent \in {"write_all", "wait_with_output"}
    /\ \/ exchange.child = "write stdout" /\ Len(exchange.stdout) = PipeCapacity
       \/ exchange.child = "write stderr" /\ Len(exchange.stderr) = PipeCapacity

\* C21: the exchange with the converter cannot deadlock: in no reachable
\* state is the parent blocked writing the child's input while the child is
\* blocked writing its output.
C21_NoWriteWriteDeadlock == ~(ParentBlockedWriting /\ ChildBlockedWriting)

\* The same exchange with its scheduling: the handler's thread takes its
\* next step whenever it has one.  Nothing makes the child take a step: the
\* converter is any program, and it may hang.
SpecPipeFair == SpecPipe /\ WF_vars(ParentStep)

\* C22: every render eventually returns: once the converter has been
\* spawned, build_invoice_pdf comes back with the PDF or with an error, also
\* when the converter never exits.
C22_RenderReturns ==
    (exchange.parent \in {"write_all", "wait_with_output"})
        ~> (exchange.parent = "returned")

\* get_invoice_pdf has answered a render whose converter failed
AnsweredFailure(result) ==
    /\ exchange.parent = "answered"
    /\ exchange.result = result
    /\ req.op = "get_invoice_pdf"

----------------------------------------------------------------------------
(* POST /company, PATCH /company (company.rs) and PATCH /auth/profile       *)
(* (auth.rs), with the invoice handlers.  `u` is the user require_user      *)
(* returned.                                                                 *)

MaxCompanies == 3

\* POST /company: the row is inserted with the columns the handler sets
\* (user_id is not among them, so it is NULL), then the user is pointed at it
create_company(u, payload) ==
    LET r == [op |-> "create_company", user |-> u, id |-> 0, payload |-> payload]
        id == Cardinality(DOMAIN companies) + 1
        created == [id |-> id, user_id |-> None, name |-> payload.name,
                    address |-> payload.address,
                    registration_number |-> payload.registration_number]
    IN
    /\ Serving
    /\ IF IsBlank(payload.name) \/ IsBlank(payload.address)
       THEN Reject(r, StatusBadRequest, "Name and address are required")
       ELSE IF IsBlank(payload.registration_number)
       THEN Reject(r, StatusBadRequest, "Registration number is required")
       ELSE /\ id <= MaxCompanies
            /\ companies' = [c \in DOMAIN companies \cup {id} |->
                               IF c = id THEN created ELSE companies[c]]
            /\ users' = [users EXCEPT ![u].company_id = Some(id)]
            /\ req' = [r EXCEPT !.id = id]
            /\ resp' = Answer(StatusOk)
            /\ UNCHANGED <<templates, invoices, line_items, txns, others>>

\* the fields of a CompanyUpdateRequest that are present and blank
BlankField(payload) ==
    IF payload.name # None /\ IsBlank(Unwrap(payload.name))
    THEN "Name is required"
    ELSE IF payload.address # None /\ IsBlank(Unwrap(payload.address))
    THEN "Address is required"
    ELSE IF payload.registration_number # None
            /\ IsBlank(Unwrap(payload.registration_number))
    THEN "Registration number is required"
    ELSE ""

\* a PATCH /company that carries the new name and address into the invoices
\* made out to the company
UpdateCompanyAndInvoices(u, payload) ==
    LET r == [op |-> "update_company", user |-> u, id |-> 0, payload |-> payload]
        company_id == users[u].company_id
        existing == companies[Unwrap(company_id)]
    IN
    /\ Serving
    /\ company_id # None
    /\ BlankField(payload) = ""
    /\ companies' = [companies EXCEPT
                       ![existing.id].name = UnwrapOr(payload.name, @),
                       ![existing.id].address = UnwrapOr(payload.address, @)]
    /\ invoices' = [i \in DOMAIN invoices |->
                      IF invoices[i].company_id = company_id
                      THEN [invoices[i] EXCEPT
                              !.client_name = UnwrapOr(payload.name, @),
                              !.client_address = UnwrapOr(payload.address, @)]
                      ELSE invoices[i]]
    /\ req' = [r EXCEPT !.id = existing.id]
    /\ resp' = Answer(StatusOk)
    /\ UNCHANGED <<users, templates, line_items, txns, others>>

\* PATCH /company: the company is the one the user row points at
update_company(u, payload) ==
    LET r == [op |-> "update_company", user |-> u, id |-> 0, payload |-> payload]
        company_id == users[u].company_id
        existing == companies[Unwrap(company_id)]
        updated ==
            [existing EXCEPT
               !.name = UnwrapOr(payload.name, @),
               !.address = UnwrapOr(payload.address, @),
               !.registration_number = UnwrapOr(payload.registration_number, @)]
    IN
    /\ Serving
    /\ IF company_id = None \/ Unwrap(company_id) \notin DOMAIN companies
       THEN Reject(r, StatusNotFound, "Company not found")
       ELSE IF BlankField(payload) # ""
       THEN Reject(r, StatusBadRequest, BlankField(payload))
       ELSE /\ companies' = [companies EXCEPT ![existing.id] = updated]
            /\ req' = [r EXCEPT !.id = existing.id]
            /\ resp' = Answer(StatusOk)
            /\ UNCHANGED <<users, templates, invoices, line_items, txns, others>>

\* PATCH /auth/profile
update_profile(u, payload) ==
    LET r == [op |-> "update_profile", user |-> u, id |-> 0, payload |-> payload]
    IN
    /\ Serving
    /\ users' = [users EXCEPT
                   ![u].address = IF payload.address # None
                                  THEN Some(Unwrap(payload.address)) ELSE @]
    /\ req' = r
    /\ resp' = Answer(StatusOk)
    /\ UNCHANGED <<companies, templates, invoices, line_items, txns, others>>

\* POST /company bodies
NewCompanies ==
    { [name |-> n, address |-> <<"lane">>, registration_number |-> g] :
        n \in {<<"new-client">>, <<" ">>}, g \in {<<"reg-3">>, <<>>} }

\* PATCH /company bodies
CompanyUpdates ==
    { [name |-> None, address |-> None, registration_number |-> None],
      [name |-> Some(<<"renamed">>), address |-> Some(<<"moved">>),
       registration_number |-> None],
      [name |-> Some(<<" ">>), address |-> None, registration_number |-> None],
      [name |-> None, address |-> Some(<<>>), registration_number |-> None],
      [name |-> None, address |-> None, registration_number |-> Some(<<>>)] }

\* PATCH /auth/profile bodies
ProfileUpdates == { [address |-> a] : a \in {None, Some(<<"new-addr">>)} }

\* POST /invoices bodies naming any company there may be
NewInvoicesOn == { NewInvoice(c, None, OneItem) : c \in 1..MaxCompanies }

\* u1 has a company and an address, u3 has signed up and has neither; u2 is
\* the tenant whose company the two must not use
NextCompany ==
    \/ \E u \in {"u1", "u3"}, payload \in NewCompanies : create_company(u, payload)
    \/ \E u \in {"u1", "u3"}, payload \in CompanyUpdates : update_company(u, payload)
    \/ \E u \in {"u1", "u3"}, payload \in ProfileUpdates : update_profile(u, payload)
    \/ \E u \in {"u1", "u3"}, payload \in NewInvoicesOn : create_invoice(u, payload)
    \/ Respond

SpecCompany == Init /\ [][NextCompany]_vars

\* the invoice the create_invoice just answered has stored
JustCreated == invoices[Len(invoices)]

\* C24: client_name, client_address and user_address of an invoice are
\* copies taken when it is created, from the selected company and from the
\* caller's profile address, and an update_company or update_profile that
\* comes later changes no stored invoice and no line item.
C24_SnapshotNotLiveJoin ==
    /\ []((req.op = "create_invoice" /\ resp.status = StatusOk)
            => /\ JustCreated.client_name = companies[req.payload.company_id].name
               /\ JustCreated.client_address
                    = companies[req.payload.company_id].address
               /\ JustCreated.user_address = Unwrap(users[req.user].address))
    /\ [][(req.op = "none" /\ req'.op \in {"update_company", "update_profile"})
            => /\ invoices' = invoices
               /\ line_items' = line_items]_vars

\* a stored invoice names its company and its issuer as they were: both the
\* company and the profile have been changed since
C24_Witness ==
    \E i \in DOMAIN invoices :
        /\ invoices[i].client_name # companies[Unwrap(invoices[i].company_id)].name
        /\ invoices[i].client_address
             # companies[Unwrap(invoices[i].company_id)].address
        /\ Some(invoices[i].user_address) # users[Unwrap(invoices[i].user_id)].address
        /\ req.op \in {"update_company", "update_profile"}
        /\ resp.status = StatusOk

ById == {"get_invoice", "update_invoice", "get_invoice_pdf"}

\* request r names an invoice that is stored for another user
NamesForeignInvoice(r) ==
    /\ r.op \in ById
    /\ r.id \in DOMAIN invoices
    /\ invoices[r.id].user_id # Some(r.user)

\* C26: get_invoice, update_invoice, get_invoice_pdf and list_invoices read
\* and change only invoices whose user_id is the caller: the invoice of an
\* answer is the caller's, a request that names another user's invoice is
\* answered 'Invoice not found' and changes no row, and an update changes
\* no invoice but the caller's own.
C26_OnlyOwnInvoices ==
    /\ [](/\ (req.op \in ById /\ IsSome(resp.invoice))
               => /\ resp.invoice[1].user_id = Some(req.user)
                  /\ resp.invoice[1].id = req.id
          /\ req.op = "list_invoices"
               => /\ \A k \in DOMAIN resp.list :
                         resp.list[k].invoice.user_id = Some(req.user)
                  /\ {resp.list[k].invoice.id : k \in DOMAIN resp.list}
                       = {i \in DOMAIN invoices : invoices[i].user_id = Some(req.user)}
          /\ NamesForeignInvoice(req)
               => /\ resp.status = StatusNotFound
                  /\ resp.error = "Invoice not found")
    /\ [][/\ (req.op = "none" /\ NamesForeignInvoice(req')) => UNCHANGED db
          /\ (req.op = "none" /\ req'.op \in ById \cup {"list_invoices"})
               => \A i \in DOMAIN invoices :
                      invoices[i].user_id # Some(req'.user)
                          => /\ invoices'[i] = invoices[i]
                             /\ line_items'[i] = line_items[i]]_vars

\* u2 has named an invoice of u1 in an update, while u1 and u2 both have
\* invoices, and was told that there is no such invoice
C26_Witness ==
    /\ req.op = "update_invoice"
    /\ req.user = "u2"
    /\ NamesForeignInvoice(req)
    /\ resp.status = StatusNotFound
    /\ \E i \in DOMAIN invoices : invoices[i].user_id = Some("u2")

\* C27: the values of an invoice's fields are data, never template text:
\* template syntax in the client's name neither is expanded nor makes the
\* expansion fail, and the name stands in the document as it is stored, on
\* the built-in page as with a custom template.
C27_FieldValuesAreData ==
    Rendered =>
        /\ ~UsedTemplate.is_custom
             => /\ render_template(DefaultPage(UsedInvoice), UsedContext).ok
                /\ contains(resp.document, UsedInvoice.client_name)
        /\ (UsedTemplate.is_custom /\ UsedTemplate.html = FragmentTemplate)
             => /\ render_template(UsedTemplate.html, UsedContext).ok
                /\ contains(resp.document, UsedInvoice.client_name)

\* create_invoice got as far as its company lookup
ReachedCompanyLookup ==
    /\ req.op = "create_invoice"
    /\ users[req.user].address # None
    /\ req.payload.items # <<>>

\* C29: a company that user U created through create_company is recorded as
\* owned by U, and a later create_invoice of U (who has an address, with at
\* least one item) accepts it as company_id; create_invoice answers 'Invalid
\* company' for exactly the ids of companies the caller does not own.
C29_CreatedCompanyIsOwned ==
    /\ (req.op = "create_company" /\ resp.status = StatusOk)
         => companies[req.id].user_id = Some(req.user)
    /\ (ReachedCompanyLookup /\ users[req.user].company_id = Some(req.payload.company_id))
         => resp.error # "Invalid company"
    /\ ReachedCompanyLookup
         => (resp.error = "Invalid company"
               <=> ~(/\ req.payload.company_id \in DOMAIN companies
                     /\ companies[req.payload.company_id].user_id = Some(req.user)))

----------------------------------------------------------------------------
(* POST /invoices and PATCH /invoices/{id} with a database that fails: an   *)
(* insert of a line item or the commit returns an error, `?` leaves the     *)
(* handler, and the transaction is dropped without a commit.                *)

\* where the database fails: at the insert of the k-th item, or at the commit
Failures ==
    {[at |-> "item", k |-> k] : k \in 1..MaxItems} \cup {[at |-> "commit", k |-> 0]}

\* the items whose inserts succeeded before the failure
ItemsInserted(items, failure) ==
    IF failure.at = "commit" THEN items ELSE SubSeq(items, 1, failure.k - 1)

\* statements that take effect as they are executed
KeepWritten(before, written) == written

\* a transaction dropped before its commit succeeded is rolled back
Rollback(before, written) == before

create_invoice_fails(u, payload, failure) ==
    LET r == [op |-> "create_invoice", user |-> u, id |-> 0, payload |-> payload]
        user == users[u]
        company == FindCompany(payload.company_id, u)
        total_amount == ComputeTotalAmount(payload.items)
        template_id == resolve_template_id(u, payload.template_id)
        created ==
            [ id             |-> Len(invoices) + 1,
              invoice_number |-> next_invoice_number(u),
              user_id        |-> Some(u),
              company_id     |-> Some(Unwrap(company).id),
              template_id    |-> template_id.value,
              client_name    |-> Unwrap(company).name,
              client_address |-> Unwrap(company).address,
              description    |-> payload.items[1].description,
              amount         |-> total_amount,
              currency       |-> payload.currency,
              user_address   |-> Unwrap(user.address),
              total_amount   |-> total_amount,
              date           |-> payload.date ]
        written ==
            [ invoices   |-> Append(invoices, created),
              line_items |-> Append(line_items,
                                    InsertItems(ItemsInserted(payload.items, failure))) ]
        kept == Rollback([invoices |-> invoices, line_items |-> line_items], written)
    IN
    /\ Serving
    /\ user.address # None
    /\ ~ItemsMissing(payload.items)
    /\ company # None
    /\ template_id.ok
    /\ failure.k <= Len(payload.items)
    /\ Len(invoices) < MaxInvoices
    /\ invoices' = kept.invoices
    /\ line_items' = kept.line_items
    /\ req' = r
    /\ resp' = Err(StatusServerError, IF failure.at = "commit" THEN "commit failed"
                                      ELSE "insert failed")
    /\ UNCHANGED <<users, companies, templates, txns, others>>

update_invoice_fails(u, id, payload, failure) ==
    LET r == [op |-> "update_invoice", user |-> u, id |-> id, payload |-> payload]
        existing == FindInvoice(id, u)
        company == IF IsSome(payload.company_id)
                   THEN FindCompany(Unwrap(payload.company_id), u) ELSE None
        resolved == IF IsSome(payload.template_id)
                    THEN resolve_template_id(u, payload.template_id)
                    ELSE [ok |-> TRUE, value |-> None, error |-> ""]
        active == ApplyFields(Unwrap(existing), company, resolved, payload)
        items == Unwrap(payload.items)
        written ==
            [ invoices   |-> [invoices EXCEPT ![id] = ApplyItems(active, items)],
              line_items |-> ReplaceItems(line_items, id,
                                          ItemsInserted(items, failure)) ]
        kept == Rollback([invoices |-> invoices, line_items |-> line_items], written)
    IN
    /\ Serving
    /\ existing # None
    /\ IsSome(payload.company_id) => company # None
    /\ resolved.ok
    /\ IsSome(payload.items)
    /\ ~ItemsMissing(items)
    /\ failure.k <= Len(items)
    /\ invoices' = kept.invoices
    /\ line_items' = kept.line_items
    /\ req' = r
    /\ resp' = Err(StatusServerError, IF failure.at = "commit" THEN "commit failed"
                                      ELSE "insert failed")
    /\ UNCHANGED <<users, companies, templates, txns, others>>

\* PATCH /invoices/{id} bodies with other items than the stored ones
ItemUpdates == { [NoChange EXCEPT !.items = Some(Run(1, n))] : n \in 1..MaxItems }

NextFailures ==
    \/ \E u \in Users :
           \E payload \in NewInvoicesR(u) : create_invoice(u, payload)
    \/ \E u \in Users, id \in InvoiceIds, payload \in ItemUpdates :
           update_invoice(u, id, payload)
    \/ \E u \in Users, failure \in Failures :
           \E payload \in NewInvoicesR(u) : create_invoice_fails(u, payload, failure)
    \/ \E u \in Users, id \in InvoiceIds, payload \in ItemUpdates, failure \in Failures :
           update_invoice_fails(u, id, payload, failure)
    \/ Respond

SpecFailures == Init /\ [][NextFailures]_vars

----------------------------------------------------------------------------
(* Sessions (auth.rs): POST /auth/login makes a session row, the cookie     *)
(* carries its id, require_user looks the row up, POST /auth/logout deletes *)
(* it.  A session id is the position of its row; the clock counts days.     *)

SESSION_DURATION_DAYS == 7
MaxSessions == 2
MaxDay == 8

\* the session ids a cookie may carry: those handed out so far or later
SessionIds == 1..MaxSessions

\* session::Entity::find_by_id(session_uuid)
FindSession(session_id) ==
    IF session_id \in DOMAIN sessions THEN sessions[session_id] ELSE None

\* a lookup that takes every row it finds for a valid one
IgnoreExpiry(session_id) ==
    LET session == FindSession(session_id)
    IN  IF session = None
        THEN [ok |-> FALSE, user |-> "", error |-> "Not authenticated"]
        ELSE [ok |-> TRUE, user |-> Unwrap(session).user_id, error |-> ""]

\* require_user: the user of the session the cookie names
require_user(session_id) ==
    LET session == FindSession(session_id)
    IN  IF session = None
        THEN [ok |-> FALSE, user |-> "", error |-> "Not authenticated"]
        ELSE IF Unwrap(session).expires_at < now
        THEN [ok |-> FALSE, user |-> "", error |-> "Session expired"]
        ELSE IF Unwrap(session).user_id \notin DOMAIN users
        THEN [ok |-> FALSE, user |-> "", error |-> "Not authenticated"]
        ELSE [ok |-> TRUE, user |-> Unwrap(session).user_id, error |-> ""]

\* create_session: a row that expires SESSION_DURATION_DAYS from now
create_session(user_id) ==
    [id |-> Len(sessions) + 1, user_id |-> user_id, created_at |-> now,
     expires_at |-> now + SESSION_DURATION_DAYS]

\* POST /auth/login; `verified` is what verify_password says
login(u, verified) ==
    LET r == [op |-> "login", user |-> u, id |-> 0, payload |-> <<>>]
        session == create_session(u)
    IN
    /\ Serving
    /\ IF ~verified
       THEN /\ req' = r
            /\ resp' = Err(StatusUnauthorized, "Invalid credentials")
            /\ UNCHANGED <<db, txns, others>>
       ELSE /\ Len(sessions) < MaxSessions
            /\ sessions' = Append(sessions, Some(session))
            /\ req' = [r EXCEPT !.id = session.id]
            /\ resp' = Answer(StatusOk)
            /\ UNCHANGED <<db, txns, now, exchange>>

\* POST /auth/logout with the cookie session_id
logout(session_id) ==
    LET r == [op |-> "logout", user |-> "", id |-> 0,
              payload |-> [session_id |-> session_id]]
    IN
    /\ Serving
    /\ req' = r
    /\ IF FindSession(session_id) = None
       THEN /\ resp' = Err(StatusUnauthorized, "Not authenticated")
            /\ UNCHANGED <<db, txns, others>>
       ELSE /\ sessions' = [sessions EXCEPT ![session_id] = None]
            /\ resp' = Answer(StatusOk)
            /\ UNCHANGED <<db, txns, now, exchange>>

\* PATCH /auth/profile with the cookie payload.session_id
update_profile_request(payload) ==
    LET r == [op |-> "update_profile", user |-> "", id |-> 0, payload |-> payload]
        current_user == require_user(payload.session_id)
    IN  IF current_user.ok
        THEN update_profile(current_user.user, payload)
        ELSE Serving /\ Reject(r, StatusUnauthorized, current_user.error)

\* POST /company with the cookie payload.session_id: the body is checked
\* first, require_user is called after that
create_company_request(payload) ==
    LET r == [op |-> "create_company", user |-> "", id |-> 0, payload |-> payload]
        current_user == require_user(payload.session_id)
    IN  IF current_user.ok
        THEN create_company(current_user.user, payload)
        ELSE /\ Serving
             /\ IF IsBlank(payload.name) \/ IsBlank(payload.address)
                THEN Reject(r, StatusBadRequest, "Name and address are required")
                ELSE IF IsBlank(payload.registration_number)
                THEN Reject(r, StatusBadRequest, "Registration number is required")
                ELSE Reject(r, StatusUnauthorized, current_user.error)

\* a day passes
Tick ==
    /\ now < MaxDay
    /\ now' = now + 1
    /\ UNCHANGED <<db, req, resp, txns, sessions, exchange>>

\* the bodies, each with the cookie it is sent with
ProfileRequests ==
    { [address |-> Some(<<"new-addr">>), session_id |-> s] : s \in SessionIds }

CompanyRequests ==
    { [name |-> n, address |-> <<"lane">>, registration_number |-> <<"reg-3">>,
       session_id |-> s] : n \in {<<"new-client">>, <<" ">>}, s \in SessionIds }

NextAuth ==
    \/ \E verified \in BOOLEAN : login("u1", verified)
    \/ \E session_id \in SessionIds : logout(session_id)
    \/ \E payload \in ProfileRequests : update_profile_request(payload)
    \/ \E payload \in CompanyRequests : create_company_request(payload)
    \/ Tick
    \/ Respond

SpecAuth == Init /\ [][NextAuth]_vars

\* the handlers that read the session cookie
WithCookie == {"logout", "update_profile", "create_company"}

\* the session row was there and logout has deleted it
LoggedOut(session_id) ==
    session_id \in DOMAIN sessions /\ sessions[session_id] = None

\* the row is there and is within SESSION_DURATION_DAYS of its creation
InForce(session_id) ==
    /\ FindSession(session_id) # None
    /\ now <= Unwrap(FindSession(session_id)).created_at + SESSION_DURATION_DAYS

\* C30 as stated: a request is accepted on a session id only while the row
\* exists and is no older than 7 days, and once logout has deleted the row
\* every request with that id is answered 'Not authenticated' and changes
\* nothing.
C30_SessionAuthenticates ==
    [][(req.op = "none" /\ req'.op \in WithCookie)
         => /\ resp'.status = StatusOk => InForce(req'.payload.session_id)
            /\ LoggedOut(req'.payload.session_id)
                 => /\ resp'.status = StatusUnauthorized
                    /\ resp'.error = "Not authenticated"
                    /\ UNCHANGED <<db, sessions>>]_vars

\* C30, amended: require_user accepts a session id only while the row exists
\* and is no older than 7 days; logout accepts it while the row exists,
\* expired or not; once logout has deleted the row every request with that
\* id is rejected and changes nothing, as 'Not authenticated', except that
\* create_company answers a blank field before it looks at the session.
C30_SessionAuthenticatesByHandler ==
    [][(req.op = "none" /\ req'.op \in WithCookie)
         => /\ (resp'.status = StatusOk /\ req'.op # "logout")
                 => InForce(req'.payload.session_id)
            /\ (resp'.status = StatusOk /\ req'.op = "logout")
                 => FindSession(req'.payload.session_id) # None
            /\ LoggedOut(req'.payload.session_id)
                 => /\ UNCHANGED <<db, sessions>>
                    /\ IF req'.op = "create_company"
                          /\ (IsBlank(req'.payload.name) \/ IsBlank(req'.payload.address))
                       THEN resp'.status = StatusBadRequest
                       ELSE /\ resp'.status = StatusUnauthorized
                            /\ resp'.error = "Not authenticated"]_vars

\* a session that was used and then logged out is presented again, within
\* its seven days, and the request is turned away
C30_Witness ==
    /\ req.op = "update_profile"
    /\ LoggedOut(req.payload.session_id)
    /\ now < SESSION_DURATION_DAYS
    /\ users["u1"].address = Some(<<"new-addr">>)
    /\ resp.status = StatusUnauthorized
    /\ resp.error = "Not authenticated"

====
